---- MODULE Spec2Model ----
(***************************************************************************)
(* SimpleContainer: hierarchical dependency-injection container.           *)
(* Registration, lifetime-scoped resolution (singleton / transient /       *)
(* scoped), scope creation with copy-on-scope, and cascading disposal.     *)
(*                                                                         *)
(* resolve() and dispose() are async functions: each one runs atomically   *)
(* from one await to the next, and other calls may run in between.  A      *)
(* call is a record of `calls`; its pc names the await it is suspended at. *)
(***************************************************************************)
EXTENDS Integers, Sequences, FiniteSets, TLC

\* ------------------------------------------------------------- bounds
\* Spec: nodes ever constructed (the root included), resolve()/dispose() calls
\* ever issued, register() calls ever made, distinct tokens.
MaxNodes == 3
MaxCalls == 2
MaxRegs == 1
NumTokens == 1
\* SpecSeq
SeqNodes == 2
SeqCalls == 3
SeqRegs == 1
SeqTokens == 1
\* SpecReg
RegNodes == 2
RegCalls == 2
RegRegs == 2
RegTokens == 2
\* SpecDisp
DispNodes == 2
DispCalls == 2
DispRegs == 1
DispTokens == 1
\* SpecNest (calls made from outside)
NestNodes == 2
NestCalls == 2
NestRegs == 2
NestTokens == 2
\* SpecFail
FailNodes == 3
FailCalls == 3
FailRegs == 1
FailTokens == 1
\* SpecMeta
MetaNodes == 2
MetaCalls == 3
MetaRegs == 1
MetaTokens == 1
\* SpecAgree
AgreeNodes == 3
AgreeCalls == 2
AgreeRegs == 1
AgreeTokens == 1
\* SpecFalsy
FalsyNodes == 2
FalsyCalls == 2
FalsyRegs == 1
FalsyTokens == 1
\* SpecTok
MaxUniques == 2
\* SpecBuild
BuildNodes == 3
BuildCalls == 2
BuildRegs == 1
BuildTokens == 2
BuildStepTokens == 1
MaxRegistrations == 2
ModNodes == 2
ModCalls == 2
ModRegs == 1
ModTokens == 2
ModStepTokens == 1
ModDirect == 1
MaxModules == 2
\* SpecCustom
CustomNodes == 3
CustomCalls == 2
CustomRegs == 1
CustomTokens == 1

Scopes == {"singleton", "transient", "scoped"}
\* What a factory returns: an object with a dispose() method, or one without;
\* or an object whose dispose() rejects.
Factories == {"Disposable", "Plain"}
FailingFactories == {"Failing"}
\* A factory that resolves another token before it returns an object, and one
\* that resolves nothing.
NestedFactories == {"Nested", "Plain"}
\* A factory that returns a falsy value (0, '', false, null), and one that
\* returns an object.
FalsyFactories == {"Falsy", "Disposable"}
\* What register() is given as metadata.scope besides the three lifetimes:
\* nothing, or a string that names none of them.
MetaScopes == {"undefined", "custom"}

\* ------------------------------------------------------------- state
VARIABLES
    parent,          \* parent[n]: the node that created n, 0 for a root
    services,        \* services[n]: the Map token -> entry, in insertion order
    scopes,          \* scopes[n]: the Set of child scopes, as its append-only list
    scopesCleared,   \* scopesCleared[n]: positions of scopes[n] emptied by clear()
    isDisposed,      \* isDisposed[n]: the _isDisposed flag
    entries,         \* the ServiceEntry objects, by identity
    insts,           \* insts[c]: the object the factory returned to call c, if any
    calls,           \* the resolve()/dispose() calls issued so far
    thrown,          \* the register()/createScope() calls that threw: operation, node
    scopeHooks,      \* what each onScopeCreated(scope) call found, in order
    registrations,   \* the ContainerBuilder's registrations array
    modules,         \* the ContainerBuilder's modules array
    built,           \* the containers that build() has returned, in order
    tokens,          \* tokens[r]: the Map name -> symbol of TokenRegistry r, in insertion order
    symbolFor,       \* the global symbol registry behind Symbol.for: name -> symbol, 0 if none
    symbols,         \* the number of symbols created so far
    named,           \* the name and token of every by-name token call so far
    uniques,         \* the tokens that createUniqueToken has returned, in order
    last             \* the last token helper call and its outcome

builderVars == <<registrations, modules, built>>
tokenVars == <<tokens, symbolFor, symbols, named, uniques, last>>
containerVars ==
    <<parent, services, scopes, scopesCleared, isDisposed, entries, insts, calls, thrown,
      scopeHooks>>
vars == <<containerVars, builderVars, tokenVars>>

\* TokenRegistry instances (the global one and another) and token names.
Registries == {"global", "other"}
Names == {"A", "B"}
NoTokenCall == [fn |-> "none", reg |-> "none", name |-> "none", token |-> 0, err |-> "none"]

Nodes == 1..Len(parent)
CallIds == 1..Len(calls)
Undefined == 0

\* ------------------------------------------------------------- helpers
\* Map.get: the entry registered for token t in the Map m, or Undefined.
MapGet(m, t) ==
    IF \E i \in 1..Len(m) : m[i].token = t
    THEN m[CHOOSE i \in 1..Len(m) : m[i].token = t].entry
    ELSE Undefined

\* Mutant of Map.set: a known key keeps its value.
MapSet_KeepFirst(m, t, e) ==
    IF \E i \in 1..Len(m) : m[i].token = t
    THEN m
    ELSE Append(m, [token |-> t, entry |-> e])

\* Map.set: replaces the value in place for a known key, appends a new key.
MapSet(m, t, e) ==
    IF \E i \in 1..Len(m) : m[i].token = t
    THEN [i \in 1..Len(m) |-> IF m[i].token = t THEN [token |-> t, entry |-> e] ELSE m[i]]
    ELSE Append(m, [token |-> t, entry |-> e])

getDefaultScope == "singleton"

\* The entry register() builds on node n: metadata?.scope || getDefaultScope(),
\* no instance.  (node, origin and meta record who holds the entry, how it was
\* made and the scope register() was given.)
createServiceEntry(n, t, f, s) ==
    [token |-> t,
     factory |-> f,
     scope |-> IF s = "undefined" THEN getDefaultScope ELSE s,
     instance |-> Undefined,
     node |-> n,
     origin |-> "register",
     meta |-> s]

\* Mutant of shouldCopyToScope: singletons are copied as well.
shouldCopyToScope_All(entry) == TRUE

shouldCopyToScope(entry) == entry.scope # "singleton"

\* The entries of node n that createScope copies, in Map order.
CopiedSlots(n) ==
    SelectSeq(services[n], LAMBDA sl : shouldCopyToScope(entries[sl.entry]))

\* A call invokes a factory at most once, so the object a factory returns is
\* identified by the call that invoked it: instance c is the one made for call c.
NoInstance ==
    [made |-> FALSE, factory |-> "none", entry |-> Undefined, node |-> Undefined,
     started |-> 0, finished |-> 0]

isDisposable(i) == insts[i].factory \in {"Disposable", "Failing"}

\* Whether the value made for call i is truthy: an object is, the value of a
\* "Falsy" factory is not.
Truthy(i) == insts[i].factory # "Falsy"

\* An instance is cached when entry.instance is truthy.
Cached(e) == entries[e].instance # Undefined /\ Truthy(entries[e].instance)

\* has(): own Map first, then the parent chain.
RECURSIVE has(_, _)
has(n, t) ==
    IF MapGet(services[n], t) # Undefined THEN TRUE
    ELSE IF parent[n] # Undefined THEN has(parent[n], t)
    ELSE FALSE

\* Set.add on a Set in insertion order: a member keeps its place.
SetAdd(q, t) == IF \E i \in 1..Len(q) : q[i] = t THEN q ELSE Append(q, t)

RECURSIVE SetAddAll(_, _)
SetAddAll(q, ts) == IF ts = <<>> THEN q ELSE SetAddAll(SetAdd(q, Head(ts)), Tail(ts))

\* Mutant of getTokens: the parent's tokens are appended to the own keys.
RECURSIVE getTokens_Concat(_)
getTokens_Concat(n) ==
    LET own == [i \in 1..Len(services[n]) |-> services[n][i].token]
    IN  IF parent[n] # Undefined THEN own \o getTokens_Concat(parent[n]) ELSE own

\* getTokens(): a Set of the own Map's keys, to which the parent's
\* getTokens() are added, as an array.
RECURSIVE getTokens(_)
getTokens(n) ==
    LET own == [i \in 1..Len(services[n]) |-> services[n][i].token]
    IN  IF parent[n] # Undefined THEN SetAddAll(own, getTokens(parent[n])) ELSE own

RECURSIVE Ancestors(_)
Ancestors(n) ==
    IF parent[n] = Undefined THEN {} ELSE {parent[n]} \cup Ancestors(parent[n])

Descendants(n) == {d \in Nodes : n \in Ancestors(d)}

\* Tokens are opaque keys: they are taken into use in the order 1, 2, ...
UsedTokens == {entries[e].token : e \in 1..Len(entries)}
NextTokens == 1..(Cardinality(UsedTokens) + 1)

\* register() calls made so far / the calls that have returned.
Regs == Cardinality({e \in 1..Len(entries) : entries[e].origin = "register"})
Finished == {c \in CallIds : calls[c].pc = "done"}

\* The calls made from outside, as opposed to those a factory makes.
TopCalls == {c \in CallIds : calls[c].caller = Undefined}

\* The resolve() calls that are suspended on the result of their factory.
InFactory == {c \in CallIds : calls[c].pc = "factory"}

\* A call as it is issued (after, inFactory: the calls that had returned and
\* those that were suspended in a factory at that time; events: the hooks and
\* the factory the call has invoked, in order).
NewCall(op, n, t, pc, err, stack) ==
    [op |-> op, node |-> n, cur |-> n, token |-> t, pc |-> pc, entry |-> Undefined,
     inst |-> Undefined, cache |-> FALSE, err |-> err, errToken |-> Undefined,
     errScope |-> "none", after |-> Finished, inFactory |-> InFactory,
     stack |-> stack, caller |-> Undefined, events |-> <<>>]

\* ------------------------------------------------------------- Init
\* new SimpleContainer(): one root, nothing registered, no calls.
Init ==
    /\ parent = <<Undefined>>
    /\ services = << <<>> >>
    /\ scopes = << <<>> >>
    /\ scopesCleared = <<0>>
    /\ isDisposed = <<FALSE>>
    /\ entries = <<>>
    /\ insts = <<>>
    /\ calls = <<>>
    /\ thrown = {}
    /\ scopeHooks = <<>>
    /\ registrations = <<>>
    /\ modules = <<>>
    /\ built = <<>>
    /\ tokens = [r \in Registries |-> <<>>]
    /\ symbolFor = [name \in Names |-> Undefined]
    /\ symbols = 0
    /\ named = {}
    /\ uniques = <<>>
    /\ last = NoTokenCall

\* Mutant of validateNotDisposed: never throws.
validateNotDisposed_Never(n) == TRUE

\* validateNotDisposed passes on node n (it throws `Cannot <operation> on
\* disposed container` otherwise).
validateNotDisposed(n) == ~isDisposed[n]

\* A synchronous operation on node n throws at its first line: nothing else
\* happens.
Throws(op, n) ==
    /\ thrown' = thrown \cup {[op |-> op, node |-> n, err |-> "Disposed"]}
    /\ UNCHANGED <<parent, services, scopes, scopesCleared, isDisposed, entries, insts, calls, scopeHooks, builderVars, tokenVars>>

\* ------------------------------------------------------------- register
\* Mutant of Register: the entry is set in every node.
Register_Everywhere(n, t, f, s) ==
    /\ validateNotDisposed(n)
    /\ entries' = Append(entries, createServiceEntry(n, t, f, s))
    /\ services' = [m \in Nodes |-> MapSet(services[m], t, Len(entries) + 1)]
    /\ UNCHANGED <<parent, scopes, scopesCleared, isDisposed, insts, calls, thrown, scopeHooks, builderVars, tokenVars>>

\* register(token, factory, {scope}) on node n.  On a disposed node
\* validateNotDisposed throws before anything is touched.
Register(n, t, f, s) ==
    /\ validateNotDisposed(n)
    /\ entries' = Append(entries, createServiceEntry(n, t, f, s))
    /\ services' = [services EXCEPT ![n] = MapSet(@, t, Len(entries) + 1)]
    /\ UNCHANGED <<parent, scopes, scopesCleared, isDisposed, insts, calls, thrown, scopeHooks, builderVars, tokenVars>>

\* register() on a disposed node.
RegisterDisposed(n) == ~validateNotDisposed(n) /\ Throws("register", n)

\* ------------------------------------------------------------- createScope
\* Mutant of onScopeCreated: the hook fires right after createScopeInstance,
\* before the scope is added and populated.
onScopeCreated_Early(child, p, sc, sv) ==
    [scope |-> child, parent |-> p, member |-> FALSE, tokens |-> {}]

\* onScopeCreated(scope) is called as the last statement of createScope: what
\* it finds is the scope's parent, whether the scope is in the creating
\* node's Set (sc), and the tokens in the scope's Map (sv).
onScopeCreated(child, p, sc, sv) ==
    [scope |-> child, parent |-> p,
     member |-> \E i \in 1..Len(sc) : sc[i] = child,
     tokens |-> {sv[i].token : i \in 1..Len(sv)}]

\* createScope() on node n: a new child, linked, with a copy of every
\* non-singleton entry (same factory and scope, no instance).
CreateScope(n) ==
    /\ validateNotDisposed(n)
    /\ LET child == Len(parent) + 1
           copied == CopiedSlots(n)
       IN  /\ parent' = Append(parent, n)
           /\ scopes' = Append([scopes EXCEPT ![n] = Append(@, child)], <<>>)
           /\ scopesCleared' = Append(scopesCleared, 0)
           /\ isDisposed' = Append(isDisposed, FALSE)
           /\ entries' = entries \o
                [i \in 1..Len(copied) |->
                    [token |-> copied[i].token,
                     factory |-> entries[copied[i].entry].factory,
                     scope |-> entries[copied[i].entry].scope,
                     instance |-> Undefined,
                     node |-> child,
                     origin |-> "copy",
                     meta |-> entries[copied[i].entry].meta]]
           /\ services' = Append(services,
                [i \in 1..Len(copied) |->
                    [token |-> copied[i].token, entry |-> Len(entries) + i]])
           /\ scopeHooks' = Append(scopeHooks,
                onScopeCreated(child, parent'[child], scopes'[n], services'[child]))
    /\ UNCHANGED <<insts, calls, thrown, builderVars, tokenVars>>

\* createScope() on a disposed node.
CreateScopeDisposed(n) == ~validateNotDisposed(n) /\ Throws("createScope", n)

\* ------------------------------------------------------------- ContainerBuilder
\* singleton(), transient(), scoped(): addRegistration pushes the registration.
addRegistration(t, f, s) ==
    /\ registrations' = Append(registrations, [token |-> t, factory |-> f, scope |-> s])
    /\ UNCHANGED <<containerVars, modules, built, tokenVars>>

\* useModule(): pushes the module.  A module is what its configure() calls on
\* the builder it is given, singleton(), transient() or scoped() calls in
\* order; `at` records how many direct registrations the builder had.
useModule(m) ==
    /\ modules' = Append(modules, [configure |-> m, at |-> Len(registrations)])
    /\ UNCHANGED <<containerVars, registrations, built, tokenVars>>

\* The register() calls that the modules' configure() make on their
\* ModuleBuilderProxy, the first k modules in order.
RECURSIVE configured(_, _)
configured(mods, k) ==
    IF k = 0 THEN <<>> ELSE configured(mods, k - 1) \o mods[k].configure

\* Mutant of applyRegistrations: a token that is registered already is skipped.
RECURSIVE applyRegistrations_FirstWins(_, _, _)
applyRegistrations_FirstWins(regs, base, k) ==
    IF k = 0 THEN <<>>
    ELSE LET m == applyRegistrations_FirstWins(regs, base, k - 1)
         IN  MapSet_KeepFirst(m, regs[k].token, base + k)

\* applyRegistrations: container.register for the first k registrations in
\* order; the Map of the container, the entry of registration i being the one
\* after the base entries.
RECURSIVE applyRegistrations(_, _, _)
applyRegistrations(regs, base, k) ==
    IF k = 0 THEN <<>>
    ELSE MapSet(applyRegistrations(regs, base, k - 1), regs[k].token, base + k)

\* Mutant of applyModules: a module does not replace a token that the
\* container has already.
RECURSIVE applyModules_KeepFirst(_, _, _, _)
applyModules_KeepFirst(m, regs, base, k) ==
    IF k = 0 THEN m
    ELSE MapSet_KeepFirst(applyModules_KeepFirst(m, regs, base, k - 1), regs[k].token, base + k)

\* applyModules: every module's configure() runs on a ModuleBuilderProxy,
\* whose singleton(), transient() and scoped() call container.register; the
\* Map m of the container after the first k of these calls.
RECURSIVE applyModules(_, _, _, _)
applyModules(m, regs, base, k) ==
    IF k = 0 THEN m
    ELSE MapSet(applyModules(m, regs, base, k - 1), regs[k].token, base + k)

\* build(): createContainer makes a new SimpleContainer without a parent,
\* applyRegistrations registers every registration on it (each register()
\* creates an entry of its own), applyModules then registers what the
\* modules configure, and the container is returned.
Build ==
    /\ LET b == Len(parent) + 1
           all == registrations \o configured(modules, Len(modules))
       IN  /\ parent' = Append(parent, Undefined)
           /\ services' = Append(services,
                    applyModules(
                        applyRegistrations(registrations, Len(entries), Len(registrations)),
                        configured(modules, Len(modules)),
                        Len(entries) + Len(registrations),
                        Len(configured(modules, Len(modules)))))
           /\ scopes' = Append(scopes, <<>>)
           /\ scopesCleared' = Append(scopesCleared, 0)
           /\ isDisposed' = Append(isDisposed, FALSE)
           /\ entries' = entries \o
                [i \in 1..Len(all) |->
                    [createServiceEntry(b, all[i].token, all[i].factory, all[i].scope)
                        EXCEPT !.origin = "build"]]
           /\ built' = Append(built, b)
    /\ UNCHANGED <<insts, calls, thrown, scopeHooks, registrations, modules, tokenVars>>

\* ------------------------------------------------------------- tokens
\* Map<string, symbol>: get, has, set (a known key keeps its place), delete.
TokGet(m, name) ==
    IF \E i \in 1..Len(m) : m[i].name = name
    THEN m[CHOOSE i \in 1..Len(m) : m[i].name = name].token
    ELSE Undefined

TokHas(m, name) == \E i \in 1..Len(m) : m[i].name = name

TokSet(m, name, tok) ==
    IF TokHas(m, name)
    THEN [i \in 1..Len(m) |-> IF m[i].name = name THEN [name |-> name, token |-> tok] ELSE m[i]]
    ELSE Append(m, [name |-> name, token |-> tok])

TokDelete(m, name) == SelectSeq(m, LAMBDA x : x.name # name)

\* TokenRegistry.getNames() and the size getter.
getNames(r) == [i \in 1..Len(tokens[r]) |-> tokens[r][i].name]
size(r) == Len(tokens[r])

\* Mutant of SymbolFor: a new symbol on every call, as Symbol(name) makes.
SymbolFor_Fresh(name) == symbols + 1

\* Symbol.for(name): the symbol of the global symbol registry for the name,
\* a new one the first time the name is asked for.
SymbolFor(name) ==
    IF symbolFor[name] # Undefined THEN symbolFor[name] ELSE symbols + 1

\* The global symbol registry and the symbol count after Symbol.for(name)
\* returned tok.
AfterSymbolFor(name, tok) ==
    /\ symbolFor' = [symbolFor EXCEPT ![name] = tok]
    /\ symbols' = IF tok > symbols THEN tok ELSE symbols

TokenCall(fn, r, name, tok, err) ==
    [fn |-> fn, reg |-> r, name |-> name, token |-> tok, err |-> err]

\* A by-name call returned tok.
TokenReturned(fn, r, name, tok) ==
    /\ last' = TokenCall(fn, r, name, tok, "none")
    /\ named' = named \cup {[name |-> name, token |-> tok]}

\* createToken(name).
CreateToken(name) ==
    LET tok == SymbolFor(name)
    IN  /\ AfterSymbolFor(name, tok)
        /\ TokenReturned("createToken", "none", name, tok)
        /\ UNCHANGED <<tokens, uniques, containerVars, builderVars>>

\* createUniqueToken(description): Symbol(description) is a new symbol.
CreateUniqueToken(desc) ==
    /\ symbols' = symbols + 1
    /\ uniques' = Append(uniques, [name |-> desc, token |-> symbols + 1])
    /\ last' = TokenCall("createUniqueToken", "none", desc, symbols + 1, "none")
    /\ UNCHANGED <<tokens, symbolFor, named, containerVars, builderVars>>

\* The body of TokenRegistry.get on registry r, called as fn.
RegistryGet(fn, r, name) ==
    LET found == TokGet(tokens[r], name)
    IN  IF found # Undefined
        THEN /\ TokenReturned(fn, r, name, found)
             /\ UNCHANGED <<tokens, symbolFor, symbols>>
        ELSE LET tok == SymbolFor(name)
             IN  /\ AfterSymbolFor(name, tok)
                 /\ tokens' = [tokens EXCEPT ![r] = TokSet(@, name, tok)]
                 /\ TokenReturned(fn, r, name, tok)

\* Mutant of createThrows: create never throws.
createThrows_Never(r, name) == FALSE

\* create throws `Token '<name>' already exists in registry`.
createThrows(r, name) == TokHas(tokens[r], name)

\* The body of TokenRegistry.create on registry r, called as fn.
RegistryCreate(fn, r, name) ==
    IF createThrows(r, name)
    THEN /\ last' = TokenCall(fn, r, name, Undefined, "AlreadyExists")
         /\ UNCHANGED <<tokens, symbolFor, symbols, named>>
    ELSE LET tok == SymbolFor(name)
         IN  /\ AfterSymbolFor(name, tok)
             /\ tokens' = [tokens EXCEPT ![r] = TokSet(@, name, tok)]
             /\ TokenReturned(fn, r, name, tok)

TokenGet(r, name) ==
    RegistryGet("get", r, name) /\ UNCHANGED <<uniques, containerVars, builderVars>>

TokenCreate(r, name) ==
    RegistryCreate("create", r, name) /\ UNCHANGED <<uniques, containerVars, builderVars>>

\* ensure: `this.tokens.has(name) ? this.get(name) : this.create(name)`.
TokenEnsure(r, name) ==
    /\ IF TokHas(tokens[r], name)
       THEN RegistryGet("ensure", r, name)
       ELSE RegistryCreate("ensure", r, name)
    /\ UNCHANGED <<uniques, containerVars, builderVars>>

TokenDelete(r, name) ==
    /\ tokens' = [tokens EXCEPT ![r] = TokDelete(@, name)]
    /\ last' = TokenCall("delete", r, name, Undefined, "none")
    /\ UNCHANGED <<symbolFor, symbols, named, uniques, containerVars, builderVars>>

TokenClear(r) ==
    /\ tokens' = [tokens EXCEPT ![r] = <<>>]
    /\ last' = TokenCall("clear", r, "none", Undefined, "none")
    /\ UNCHANGED <<symbolFor, symbols, named, uniques, containerVars, builderVars>>

\* ------------------------------------------------------------- resolve
\* resolve(token) is called on node n: validateNotDisposed, then the call
\* suspends on `await this.tryCustomResolve(token)`.
ResolveCall(n, t) ==
    /\ calls' = Append(calls,
            IF ~validateNotDisposed(n)
            THEN NewCall("resolve", n, t, "done", "Disposed", <<>>)
            ELSE NewCall("resolve", n, t, "lookup", "none", <<>>))
    /\ insts' = Append(insts, NoInstance)
    /\ UNCHANGED <<parent, services, scopes, scopesCleared, isDisposed, entries, thrown, scopeHooks, builderVars, tokenVars>>

\* Mutant of handleMissingService: resolves to undefined instead of throwing.
handleMissingService_Undefined(call) == [call EXCEPT !.pc = "done"]

\* The default handleMissingService throws `Service '<token>' not registered`.
handleMissingService(call) ==
    [call EXCEPT !.pc = "done", !.err = "NotRegistered", !.errToken = call.token]

\* After tryCustomResolve returned undefined: look the token up in the
\* current node, else delegate to the parent, else handleMissingService.
ResolveLookup(c) ==
    /\ calls[c].op = "resolve" /\ calls[c].pc = "lookup"
    /\ LET n == calls[c].cur
           e == MapGet(services[n], calls[c].token)
       IN  calls' = [calls EXCEPT ![c] =
              IF e # Undefined
              THEN [@ EXCEPT !.entry = e, !.pc = "policy",
                             !.events = Append(@, "beforeResolve")]
              ELSE IF parent[n] # Undefined
              THEN IF ~validateNotDisposed(parent[n])
                   THEN [@ EXCEPT !.pc = "done", !.err = "Disposed"]
                   ELSE [@ EXCEPT !.cur = parent[n]]
              ELSE handleMissingService(@)]
    /\ UNCHANGED <<parent, services, scopes, scopesCleared, isDisposed, entries, insts, thrown, scopeHooks, builderVars, tokenVars>>

\* The value an overriding tryCustomResolve yields: any value but undefined,
\* and no instance a factory of the container made.
CustomValue == -1

\* Mutant of customResolve: the entry is looked up before the value is returned.
customResolve_Lookup(call, v) ==
    [call EXCEPT !.pc = "done", !.inst = v,
                 !.entry = MapGet(services[call.cur], call.token)]

\* `if (customResolution !== undefined) return customResolution`.
customResolve(call, v) == [call EXCEPT !.pc = "done", !.inst = v]

\* tryCustomResolve of the node that runs resolve() (an override in a derived
\* container) yields a defined value: resolve() returns it.
ResolveCustom(c) ==
    /\ calls[c].op = "resolve" /\ calls[c].pc = "lookup"
    /\ calls' = [calls EXCEPT ![c] = customResolve(@, CustomValue)]
    /\ UNCHANGED <<parent, services, scopes, scopesCleared, isDisposed, entries, insts, thrown, scopeHooks, builderVars, tokenVars>>

\* Mutants of CachesOn: a transient that is cached like a singleton; a scoped
\* entry that is cached in a root as well.
CachesOn_Transient(n, e) ==
    \/ entries[e].scope \in {"singleton", "transient"}
    \/ entries[e].scope = "scoped" /\ parent[n] # Undefined

CachesOn_ScopedAtRoot(n, e) == entries[e].scope \in {"singleton", "scoped"}

\* Whether resolving entry e on node n caches the instance on the entry:
\* singleton always, scoped only in a node that has a parent.
CachesOn(n, e) ==
    \/ entries[e].scope = "singleton"
    \/ entries[e].scope = "scoped" /\ parent[n] # Undefined

\* Mutant of creationHook: onSingletonCreated whatever the lifetime.
creationHook_Singleton(n, e) == "onSingletonCreated"

\* The hook that is awaited after the factory of entry e returned on node n:
\* resolveSingleton calls onSingletonCreated, resolveTransient
\* onTransientCreated, resolveScoped onScopedCreated in a scope and
\* resolveTransient in a root.
creationHook(n, e) ==
    IF entries[e].scope = "singleton" THEN "onSingletonCreated"
    ELSE IF entries[e].scope = "scoped" /\ parent[n] # Undefined THEN "onScopedCreated"
    ELSE "onTransientCreated"

\* Mutant of createInstance: the factory gets the node resolve() was called on.
createInstance_OnCaller(call, e) ==
    [made |-> TRUE, factory |-> entries[e].factory, entry |-> e,
     node |-> call.node, started |-> 0, finished |-> 0]

\* createInstance: `factory(this)`, the factory of entry e is invoked with the
\* node that runs resolveEntry; the record is the object it returns.
createInstance(call, e) ==
    [made |-> TRUE, factory |-> entries[e].factory, entry |-> e,
     node |-> call.cur, started |-> 0, finished |-> 0]

\* Mutant of resolveCustomScope: resolves to undefined instead of throwing.
resolveCustomScope_Undefined(call, e) == [call EXCEPT !.pc = "done"]

\* resolveCustomScope throws `Unknown scope: <scope>`.
resolveCustomScope(call, e) ==
    [call EXCEPT !.pc = "done", !.err = "UnknownScope", !.errScope = entries[e].scope]

\* A "Nested" factory is `async c => { await c.resolve(dep); return {} }`:
\* registered for token t it resolves the token before t on the node it is
\* given.  The resolve() it calls runs up to its first await within the
\* factory call; c is the call whose factory it is.
Dep(t) == t - 1

NestedCall(c, n, t) ==
    [(IF ~validateNotDisposed(n)
      THEN NewCall("resolve", n, t, "done", "Disposed", <<>>)
      ELSE NewCall("resolve", n, t, "lookup", "none", <<>>)) EXCEPT !.caller = c]

\* The resolve() calls that the factory of call c has made.
NestedCalls(c) == {d \in CallIds : calls[d].caller = c}

\* Mutant of FactoryDone: the factory's result waits for a node that is free
\* of nested calls, as under a lock held by the outer resolve.
FactoryDone_Locked(c) == NestedCalls(c) = {}

\* The factory of call c can return: the resolve() it awaits has settled.
FactoryDone(c) == \A d \in NestedCalls(c) : calls[d].pc = "done"

\* After beforeResolve: the lifetime policy.  A scope that is none of the
\* three goes to resolveCustomScope.  A cached instance is returned as it
\* is; otherwise createInstance calls the factory with this node and the
\* call suspends on the factory's result.
ResolvePolicy(c) ==
    /\ calls[c].op = "resolve" /\ calls[c].pc = "policy"
    /\ LET n == calls[c].cur
           e == calls[c].entry
       IN  IF entries[e].scope \notin Scopes
           THEN /\ calls' = [calls EXCEPT ![c] = resolveCustomScope(@, e)]
                /\ UNCHANGED insts
           ELSE IF CachesOn(n, e) /\ Cached(e)
           THEN /\ calls' = [calls EXCEPT ![c] =
                        [@ EXCEPT !.inst = entries[e].instance, !.pc = "after",
                                  !.events = Append(@, "afterResolve")]]
                /\ UNCHANGED insts
           ELSE LET made == [insts EXCEPT ![c] = createInstance(calls[c], e)]
                    susp == [calls EXCEPT ![c] =
                                [@ EXCEPT !.inst = c, !.pc = "factory",
                                          !.cache = CachesOn(n, e),
                                          !.events = Append(@, "factory")]]
                IN  IF entries[e].factory = "Nested"
                    THEN /\ insts' = Append(made, NoInstance)
                         /\ calls' = Append(susp, NestedCall(c, n, Dep(entries[e].token)))
                    ELSE /\ insts' = made
                         /\ calls' = susp
    /\ UNCHANGED <<parent, services, scopes, scopesCleared, isDisposed, entries, thrown, scopeHooks, builderVars, tokenVars>>

\* The factory's result arrived: a caching lifetime assigns entry.instance;
\* then the call suspends on onSingleton/onTransient/onScopedCreated.  When
\* the factory rejected (the resolve() it awaited was rejected), nothing is
\* assigned and the call is rejected with that error.
ResolveCreated(c) ==
    /\ calls[c].op = "resolve" /\ calls[c].pc = "factory"
    /\ FactoryDone(c)
    /\ IF \E d \in NestedCalls(c) : calls[d].err # "none"
       THEN LET d == CHOOSE x \in NestedCalls(c) : calls[x].err # "none"
            IN  /\ calls' = [calls EXCEPT ![c] =
                        [@ EXCEPT !.pc = "done", !.inst = Undefined,
                                  !.err = calls[d].err, !.errToken = calls[d].errToken,
                                  !.errScope = calls[d].errScope]]
                /\ UNCHANGED entries
       ELSE /\ entries' = IF calls[c].cache
                          THEN [entries EXCEPT ![calls[c].entry].instance = calls[c].inst]
                          ELSE entries
            /\ calls' = [calls EXCEPT ![c] =
                    [@ EXCEPT !.pc = "hook",
                              !.events = Append(@, creationHook(calls[c].cur, calls[c].entry))]]
    /\ UNCHANGED <<parent, services, scopes, scopesCleared, isDisposed, insts, thrown, scopeHooks, builderVars, tokenVars>>

\* After the creation hook: `return entry.instance` reads the entry again
\* (a transient returns its local); then the call suspends on afterResolve.
ResolveHooked(c) ==
    /\ calls[c].op = "resolve" /\ calls[c].pc = "hook"
    /\ calls' = [calls EXCEPT ![c] =
            [@ EXCEPT !.inst = IF calls[c].cache
                               THEN entries[calls[c].entry].instance
                               ELSE @,
                      !.pc = "after",
                      !.events = Append(@, "afterResolve")]]
    /\ UNCHANGED <<parent, services, scopes, scopesCleared, isDisposed, entries, insts, thrown, scopeHooks, builderVars, tokenVars>>

\* After afterResolve: resolve() returns the instance.
ResolveReturn(c) ==
    /\ calls[c].op = "resolve" /\ calls[c].pc = "after"
    /\ calls' = [calls EXCEPT ![c].pc = "done"]
    /\ UNCHANGED <<parent, services, scopes, scopesCleared, isDisposed, entries, insts, thrown, scopeHooks, builderVars, tokenVars>>

\* ------------------------------------------------------------- dispose
\* One activation of dispose() on a node: where it is suspended (pc), the
\* position of its Set/Map iterator (it) and the instance whose dispose()
\* it awaits (wait).  A dispose() call keeps a stack of them: the last one
\* runs, the others await `scope.dispose()`.
Frame(n) == [node |-> n, pc |-> "scopes", it |-> 0, wait |-> Undefined]

Top(c) == calls[c].stack[Len(calls[c].stack)]
SetTop(st, fr) == [st EXCEPT ![Len(st)] = fr]

\* Mutant of NextScopeIdx: the scope created last comes first.
NextScopeIdx_Last(n, it) ==
    LET from == IF it > scopesCleared[n] THEN it ELSE scopesCleared[n]
    IN  IF from < Len(scopes[n]) THEN Len(scopes[n]) ELSE 0

\* The Set iterator of `for (const scope of this.scopes)`: the next position
\* after `it` that clear() has not emptied, 0 when the iteration is over.
NextScopeIdx(n, it) ==
    LET from == IF it > scopesCleared[n] THEN it ELSE scopesCleared[n]
    IN  IF from < Len(scopes[n]) THEN from + 1 ELSE 0

\* The Map iterator of disposeServices with its `if (entry.instance)`: the
\* next position after `it` whose entry holds an instance, 0 when none is left.
NextSvcIdx(n, it) ==
    LET live == {j \in (it + 1)..Len(services[n]) : Cached(services[n][j].entry)}
    IN  IF live = {} THEN 0 ELSE CHOOSE j \in live : \A k \in live : j <= k

\* disposeServices from iterator position `it`: disposeService is called on
\* the next cached instance, which invokes instance.dispose() when the
\* instance has one; with no instance left disposeServices returns.
SvcFrame(fr, it) ==
    LET n == fr.node
        j == NextSvcIdx(n, it)
        i == entries[services[n][j].entry].instance
    IN  IF j = 0 THEN [fr EXCEPT !.pc = "clear", !.wait = Undefined]
        ELSE [fr EXCEPT !.pc = "svc", !.it = j,
                        !.wait = IF isDisposable(i) THEN i ELSE Undefined]

\* Mutant of DisposeCall: the `if (this._isDisposed) return` is missing.
DisposeCall_NoGuard(n) ==
    /\ calls' = Append(calls, NewCall("dispose", n, Undefined, "run", "none", <<Frame(n)>>))
    /\ insts' = Append(insts, NoInstance)
    /\ UNCHANGED <<parent, services, scopes, scopesCleared, isDisposed, entries, thrown, scopeHooks, builderVars, tokenVars>>

\* dispose() is called on node n: a disposed node returns at once; otherwise
\* the call suspends on beforeDispose.
DisposeCall(n) ==
    /\ calls' = Append(calls,
            IF isDisposed[n]
            THEN NewCall("dispose", n, Undefined, "done", "none", <<>>)
            ELSE NewCall("dispose", n, Undefined, "run", "none", <<Frame(n)>>))
    /\ insts' = Append(insts, NoInstance)
    /\ UNCHANGED <<parent, services, scopes, scopesCleared, isDisposed, entries, thrown, scopeHooks, builderVars, tokenVars>>

\* The loop over the child scopes: `await scope.dispose()` on the next child,
\* which returns at once when that child is disposed; after the last child
\* scopes.clear() and the start of disposeServices.
DisposeScopes(c) ==
    /\ calls[c].op = "dispose" /\ calls[c].pc = "run" /\ Top(c).pc = "scopes"
    /\ LET fr == Top(c)
           n == fr.node
           j == NextScopeIdx(n, fr.it)
       IN  IF j # 0
           THEN /\ calls' = [calls EXCEPT ![c].stack =
                        IF isDisposed[scopes[n][j]]
                        THEN SetTop(@, [fr EXCEPT !.it = j])
                        ELSE Append(SetTop(@, [fr EXCEPT !.it = j]), Frame(scopes[n][j]))]
                /\ UNCHANGED <<scopesCleared, insts>>
           ELSE LET nf == SvcFrame(fr, 0)
                IN  /\ scopesCleared' = [scopesCleared EXCEPT ![n] = Len(scopes[n])]
                    /\ calls' = [calls EXCEPT ![c].stack = SetTop(@, nf)]
                    /\ insts' = IF nf.wait # Undefined
                                THEN [insts EXCEPT ![nf.wait].started = @ + 1]
                                ELSE insts
    /\ UNCHANGED <<parent, services, scopes, isDisposed, entries, thrown, scopeHooks, builderVars, tokenVars>>

\* disposeService returned (the instance's dispose() completed, or the
\* instance had none): the Map iteration goes on.  When the instance's
\* dispose() rejected, the error leaves disposeServices, dispose() and every
\* dispose() that awaits it: the call is rejected where it stands.
DisposeSvc(c) ==
    /\ calls[c].op = "dispose" /\ calls[c].pc = "run" /\ Top(c).pc = "svc"
    /\ LET fr == Top(c)
           nf == SvcFrame(fr, fr.it)
           fin == IF fr.wait # Undefined
                  THEN [insts EXCEPT ![fr.wait].finished = @ + 1]
                  ELSE insts
       IN  IF fr.wait # Undefined /\ insts[fr.wait].factory = "Failing"
           THEN /\ calls' = [calls EXCEPT ![c] =
                        [@ EXCEPT !.pc = "done", !.err = "DisposeFailed", !.stack = <<>>]]
                /\ insts' = fin
           ELSE /\ calls' = [calls EXCEPT ![c].stack = SetTop(@, nf)]
                /\ insts' = IF nf.wait # Undefined
                            THEN [fin EXCEPT ![nf.wait].started = @ + 1]
                            ELSE fin
    /\ UNCHANGED <<parent, services, scopes, scopesCleared, isDisposed, entries, thrown, scopeHooks, builderVars, tokenVars>>

\* Mutant of DisposeClear: the ancestors are marked disposed as well.
DisposeClear_Chain(c) ==
    /\ calls[c].op = "dispose" /\ calls[c].pc = "run" /\ Top(c).pc = "clear"
    /\ services' = [services EXCEPT ![Top(c).node] = <<>>]
    /\ isDisposed' = [m \in Nodes |->
            IF m = Top(c).node \/ m \in Ancestors(Top(c).node) THEN TRUE ELSE isDisposed[m]]
    /\ calls' = [calls EXCEPT ![c].stack = SetTop(@, [Top(c) EXCEPT !.pc = "after"])]
    /\ UNCHANGED <<parent, scopes, scopesCleared, entries, insts, thrown, scopeHooks, builderVars, tokenVars>>

\* Mutant of DisposeClear: the flag is flipped instead of set.
DisposeClear_Toggle(c) ==
    /\ calls[c].op = "dispose" /\ calls[c].pc = "run" /\ Top(c).pc = "clear"
    /\ services' = [services EXCEPT ![Top(c).node] = <<>>]
    /\ isDisposed' = [isDisposed EXCEPT ![Top(c).node] = ~@]
    /\ calls' = [calls EXCEPT ![c].stack = SetTop(@, [Top(c) EXCEPT !.pc = "after"])]
    /\ UNCHANGED <<parent, scopes, scopesCleared, entries, insts, thrown, scopeHooks, builderVars, tokenVars>>

\* disposeServices is over: services.clear(), _isDisposed = true, and the
\* call suspends on afterDispose.
DisposeClear(c) ==
    /\ calls[c].op = "dispose" /\ calls[c].pc = "run" /\ Top(c).pc = "clear"
    /\ services' = [services EXCEPT ![Top(c).node] = <<>>]
    /\ isDisposed' = [isDisposed EXCEPT ![Top(c).node] = TRUE]
    /\ calls' = [calls EXCEPT ![c].stack = SetTop(@, [Top(c) EXCEPT !.pc = "after"])]
    /\ UNCHANGED <<parent, scopes, scopesCleared, entries, insts, thrown, scopeHooks, builderVars, tokenVars>>

\* afterDispose returned: this dispose() is over; the dispose() that awaits
\* it, if any, goes on with its loop over the scopes.
DisposeAfter(c) ==
    /\ calls[c].op = "dispose" /\ calls[c].pc = "run" /\ Top(c).pc = "after"
    /\ calls' = [calls EXCEPT ![c] =
            [@ EXCEPT !.stack = SubSeq(@, 1, Len(@) - 1),
                      !.pc = IF Len(calls[c].stack) = 1 THEN "done" ELSE "run"]]
    /\ UNCHANGED <<parent, services, scopes, scopesCleared, isDisposed, entries, insts, thrown, scopeHooks, builderVars, tokenVars>>

\* ------------------------------------------------------------- specification
\* Every operation of the container, called at any time on any node, within
\* the given numbers of nodes, calls, register() calls and tokens, and with
\* factories and metadata scopes of the given kinds.  A call that throws at
\* its first line changes nothing of the container: it is a stuttering step
\* here, and a step of Throwing where the thrown errors are observed.
Step(maxNodes, maxCalls, maxRegs, numTokens, facs, scps) ==
    \/ \E n \in Nodes, t \in NextTokens \cap (1..numTokens), f \in facs, s \in scps :
            Regs < maxRegs /\ (f = "Nested" => t > 1) /\ Register(n, t, f, s)
    \/ \E n \in Nodes : Len(parent) < maxNodes /\ CreateScope(n)
    \/ \E n \in Nodes, t \in NextTokens \cap (1..numTokens) :
            Cardinality(TopCalls) < maxCalls /\ ResolveCall(n, t)
    \/ \E n \in Nodes : Cardinality(TopCalls) < maxCalls /\ DisposeCall(n)
    \/ \E c \in CallIds : ResolveLookup(c)
    \/ \E c \in CallIds : ResolvePolicy(c)
    \/ \E c \in CallIds : ResolveCreated(c)
    \/ \E c \in CallIds : ResolveHooked(c)
    \/ \E c \in CallIds : ResolveReturn(c)
    \/ \E c \in CallIds : DisposeScopes(c)
    \/ \E c \in CallIds : DisposeSvc(c)
    \/ \E c \in CallIds : DisposeClear(c)
    \/ \E c \in CallIds : DisposeAfter(c)

\* Deep hierarchies: root, child and grandchild or sibling, two calls.
Next == Step(MaxNodes, MaxCalls, MaxRegs, NumTokens, Factories, Scopes)
Spec == Init /\ [][Next]_vars

\* Three calls, so that a call can follow two overlapping ones.
NextSeq == Step(SeqNodes, SeqCalls, SeqRegs, SeqTokens, Factories, Scopes)
SpecSeq == Init /\ [][NextSeq]_vars

\* Two tokens and re-registration.
NextReg == Step(RegNodes, RegCalls, RegRegs, RegTokens, {"Disposable"}, Scopes)
SpecReg == Init /\ [][NextReg]_vars

\* register() and createScope() on a disposed node, observed.
Throwing ==
    \/ \E n \in Nodes : RegisterDisposed(n)
    \/ \E n \in Nodes : CreateScopeDisposed(n)

\* Calls on disposed nodes: every operation, and the errors thrown.
NextDisp == Step(DispNodes, DispCalls, DispRegs, DispTokens, Factories, Scopes) \/ Throwing
SpecDisp == Init /\ [][NextDisp]_vars

\* Instances whose dispose() rejects, in two scopes of one root.
NextFail == Step(FailNodes, FailCalls, FailRegs, FailTokens, FailingFactories, {"scoped"})
SpecFail == Init /\ [][NextFail]_vars

\* Factories that resolve another token on the node they are given.
NextNest == Step(NestNodes, NestCalls, NestRegs, NestTokens, NestedFactories, Scopes)
SpecNest == Init /\ [][NextNest]_vars

\* A step of a call that is under way.  Between two awaits a call runs on the
\* event loop, which runs every continuation that is ready: no call that can
\* go on is left waiting forever.
Continue ==
    \E c \in CallIds :
        \/ ResolveLookup(c) \/ ResolvePolicy(c) \/ ResolveCreated(c)
        \/ ResolveHooked(c) \/ ResolveReturn(c)
        \/ DisposeScopes(c) \/ DisposeSvc(c) \/ DisposeClear(c) \/ DisposeAfter(c)

SpecNestLive == SpecNest /\ WF_vars(Continue)

\* The container used with has() as a test before resolve(): register() is
\* not called while a resolve() is under way.
NextAgree ==
    /\ Step(AgreeNodes, AgreeCalls, AgreeRegs, AgreeTokens, Factories, Scopes)
    /\ Regs' # Regs => \A c \in CallIds : calls[c].op = "resolve" => calls[c].pc = "done"
SpecAgree == Init /\ [][NextAgree]_vars

\* Factories that return a falsy value.
NextFalsy == Step(FalsyNodes, FalsyCalls, FalsyRegs, FalsyTokens, FalsyFactories, Scopes)
SpecFalsy == Init /\ [][NextFalsy]_vars

\* The token helpers: two registries, two names, unique tokens.
NextTok ==
    \/ \E name \in Names : CreateToken(name)
    \/ \E desc \in Names : Len(uniques) < MaxUniques /\ CreateUniqueToken(desc)
    \/ \E r \in Registries, name \in Names : TokenGet(r, name)
    \/ \E r \in Registries, name \in Names : TokenCreate(r, name)
    \/ \E r \in Registries, name \in Names : TokenEnsure(r, name)
    \/ \E r \in Registries, name \in Names : TokenDelete(r, name)
    \/ \E r \in Registries : TokenClear(r)
SpecTok == Init /\ [][NextTok]_vars

\* A ContainerBuilder: registrations and builds, and the containers in use.
\* The builder is given its tokens in the order 1, 2, ...; the containers
\* are used through the first token, and register() is called on them for
\* singletons.
BuilderTokens == {registrations[i].token : i \in 1..Len(registrations)}
NextBuild ==
    \/ Step(BuildNodes, BuildCalls, BuildRegs, BuildStepTokens, {"Plain"}, {"singleton"})
    \/ \E t \in 1..(Cardinality(BuilderTokens) + 1) \cap 1..BuildTokens, s \in Scopes :
            Len(registrations) < MaxRegistrations /\ addRegistration(t, "Plain", s)
    \/ Len(parent) < BuildNodes /\ Build
SpecBuild == Init /\ [][NextBuild]_vars

\* A ContainerBuilder with modules: direct singleton() calls with a factory
\* of their own, modules whose configure() registers one token with
\* transient() or scoped(), and builds.
NextModule ==
    \/ Step(ModNodes, ModCalls, ModRegs, ModStepTokens, {"Plain"}, {"singleton"})
    \/ \E t \in 1..(Cardinality(BuilderTokens) + 1) \cap 1..ModTokens :
            Len(registrations) < ModDirect /\ addRegistration(t, "Plain", "singleton")
    \/ \E t \in 1..ModTokens, s \in {"transient", "scoped"} :
            /\ Len(modules) < MaxModules
            /\ useModule(<<[token |-> t, factory |-> "Disposable", scope |-> s]>>)
    \/ Len(parent) < ModNodes /\ Build
SpecModule == Init /\ [][NextModule]_vars

\* Containers whose tryCustomResolve is overridden.
NextCustom ==
    \/ Step(CustomNodes, CustomCalls, CustomRegs, CustomTokens, {"Disposable"}, Scopes)
    \/ \E c \in CallIds : ResolveCustom(c)
SpecCustom == Init /\ [][NextCustom]_vars

\* Registrations without a scope and with an unknown one.
NextMeta == Step(MetaNodes, MetaCalls, MetaRegs, MetaTokens, {"Plain"}, MetaScopes)
SpecMeta == Init /\ [][NextMeta]_vars

\* ------------------------------------------------------------- properties
ResolveCalls == {c \in CallIds : calls[c].op = "resolve"}
DisposeCalls == {c \in CallIds : calls[c].op = "dispose"}

\* resolve() call c has returned an instance (calls[c].inst).
Returned(c) == calls[c].op = "resolve" /\ calls[c].pc = "done" /\ calls[c].err = "none"

\* Call b was issued while the earlier call a had not returned yet.
Overlap(a, b) == a < b /\ a \notin calls[b].after

\* Number of times the factory of entry e has been invoked.
FactoryRuns(e) == Cardinality({c \in CallIds : insts[c].made /\ insts[c].entry = e})

\* Calls a and b resolved the same registration, found in the node they were
\* called on.
SameOwnEntry(a, b) ==
    /\ Returned(a) /\ Returned(b)
    /\ calls[a].node = calls[b].node
    /\ calls[a].entry = calls[b].entry
    /\ entries[calls[a].entry].node = calls[a].node

\* C1: resolve(token) calls of a singleton token that are issued on the
\* registering node before the first of them completes all return the
\* identical instance, and the factory is invoked exactly once.
C1_SingletonSingleFlight ==
    \A a, b \in ResolveCalls :
        (/\ SameOwnEntry(a, b)
         /\ entries[calls[a].entry].scope = "singleton"
         /\ Overlap(a, b))
        => /\ calls[a].inst = calls[b].inst
           /\ FactoryRuns(calls[a].entry) = 1

\* C2: resolve(token) calls of a scoped token held by a non-root node that
\* are issued on that node before the first of them completes all return the
\* identical instance, and the factory is invoked at most once for that node.
C2_ScopedSingleFlight ==
    \A a, b \in ResolveCalls :
        (/\ SameOwnEntry(a, b)
         /\ entries[calls[a].entry].scope = "scoped"
         /\ parent[calls[a].node] # Undefined
         /\ Overlap(a, b))
        => /\ calls[a].inst = calls[b].inst
           /\ FactoryRuns(calls[a].entry) <= 1

\* C3: for a singleton token that is not re-registered, once one resolve(token)
\* on the node has completed, every later resolve(token) on that node returns
\* the same instance and does not invoke the factory again.
C3_SingletonCachedAfterFirst ==
    \A a, b \in ResolveCalls :
        (/\ SameOwnEntry(a, b)
         /\ entries[calls[a].entry].scope = "singleton"
         /\ a \in calls[b].after)
        => /\ calls[b].inst = calls[a].inst
           /\ ~insts[b].made

\* No two resolve calls of entry e were in flight at the same time.
NoRace(e) ==
    \A c, d \in ResolveCalls :
        (calls[c].entry = e /\ calls[d].entry = e) => ~Overlap(c, d)

\* C3 restricted to registrations whose resolutions never overlapped: this
\* is what the code does guarantee.
C3_WithoutOverlap ==
    \A a, b \in ResolveCalls :
        (/\ SameOwnEntry(a, b)
         /\ entries[calls[a].entry].scope = "singleton"
         /\ NoRace(calls[a].entry)
         /\ a \in calls[b].after)
        => /\ calls[b].inst = calls[a].inst
           /\ ~insts[b].made

\* C4: every resolve of a transient token invokes the factory exactly once
\* and returns that fresh result, two resolutions never return the same
\* instance, and no transient entry ever holds a cached instance.
C4_TransientFresh ==
    /\ \A e \in 1..Len(entries) :
            entries[e].scope = "transient" =>
                /\ entries[e].instance = Undefined
                /\ FactoryRuns(e) = Cardinality({c \in ResolveCalls :
                        calls[c].entry = e /\ calls[c].pc \in {"factory", "hook", "after", "done"}})
    /\ \A c \in ResolveCalls :
            (Returned(c) /\ calls[c].entry # Undefined
                /\ entries[calls[c].entry].scope = "transient")
            => /\ insts[c].made /\ insts[c].entry = calls[c].entry
               /\ calls[c].inst = c
               /\ \A b \in ResolveCalls \ {c} : Returned(b) => calls[b].inst # calls[c].inst

\* Two resolutions of one transient registration have returned.
C4_Witness ==
    \E a, b \in ResolveCalls :
        /\ a # b /\ Returned(a) /\ Returned(b)
        /\ calls[a].entry = calls[b].entry
        /\ entries[calls[a].entry].scope = "transient"

\* C5: with X registered as scoped on the root before the scopes S and S2 are
\* created from it, every resolution of X on S returns one instance, every
\* resolution on S2 returns one instance, and the two instances differ.
C5_ScopedConfinement ==
    \A a, b \in ResolveCalls :
        (/\ a < b /\ Returned(a) /\ Returned(b)
         /\ calls[a].token = calls[b].token
         /\ \A c \in {a, b} :
                /\ entries[calls[c].entry].node = calls[c].node
                /\ entries[calls[c].entry].scope = "scoped"
                /\ entries[calls[c].entry].origin = "copy"
                /\ parent[calls[c].node] # Undefined
                /\ parent[parent[calls[c].node]] = Undefined)
        => IF calls[a].node = calls[b].node
           THEN calls[a].inst = calls[b].inst
           ELSE calls[a].inst # calls[b].inst

\* C5 restricted to scopes on which the resolutions of X never overlapped.
C5_WithoutOverlap ==
    \A a, b \in ResolveCalls :
        (/\ a < b /\ Returned(a) /\ Returned(b)
         /\ calls[a].token = calls[b].token
         /\ NoRace(calls[a].entry)
         /\ \A c \in {a, b} :
                /\ entries[calls[c].entry].node = calls[c].node
                /\ entries[calls[c].entry].scope = "scoped"
                /\ entries[calls[c].entry].origin = "copy"
                /\ parent[calls[c].node] # Undefined
                /\ parent[parent[calls[c].node]] = Undefined)
        => IF calls[a].node = calls[b].node
           THEN calls[a].inst = calls[b].inst
           ELSE calls[a].inst # calls[b].inst

\* C6: resolving a scoped token on a root behaves as transient: each
\* resolution invokes the factory and returns the fresh result, two resolutions
\* return distinct instances, and a root's scoped entry never holds an instance.
C6_ScopedAtRootIsTransient ==
    /\ \A e \in 1..Len(entries) :
            (entries[e].scope = "scoped" /\ parent[entries[e].node] = Undefined)
            => entries[e].instance = Undefined
    /\ \A c \in ResolveCalls :
            (Returned(c) /\ calls[c].entry # Undefined
                /\ entries[calls[c].entry].scope = "scoped"
                /\ parent[calls[c].cur] = Undefined)
            => /\ insts[c].made /\ insts[c].entry = calls[c].entry
               /\ calls[c].inst = c
               /\ \A b \in ResolveCalls \ {c} : Returned(b) => calls[b].inst # calls[c].inst

\* Two resolutions of one scoped registration of a root have returned.
C6_Witness ==
    \E a, b \in ResolveCalls :
        /\ a # b /\ Returned(a) /\ Returned(b)
        /\ calls[a].entry = calls[b].entry
        /\ entries[calls[a].entry].scope = "scoped"
        /\ parent[calls[a].cur] = Undefined

\* C7: with Y registered as singleton on the root only, resolve(Y) on any
\* descendant returns the same instance as resolve(Y) on the root, and with
\* sequential resolutions the factory runs once in total.
C7_Delegation ==
    \A a, b \in ResolveCalls :
        (/\ Returned(a) /\ Returned(b)
         /\ calls[a].entry = calls[b].entry
         /\ entries[calls[a].entry].scope = "singleton"
         /\ calls[a].node = entries[calls[a].entry].node
         /\ parent[calls[a].node] = Undefined
         /\ calls[b].node \in Descendants(calls[a].node))
        => /\ calls[a].inst = calls[b].inst
           /\ (\A c, d \in ResolveCalls : ~Overlap(c, d))
                => FactoryRuns(calls[a].entry) = 1

\* C7 restricted to resolutions of Y that never overlapped.
C7_WithoutOverlap ==
    \A a, b \in ResolveCalls :
        (/\ Returned(a) /\ Returned(b)
         /\ calls[a].entry = calls[b].entry
         /\ entries[calls[a].entry].scope = "singleton"
         /\ NoRace(calls[a].entry)
         /\ calls[a].node = entries[calls[a].entry].node
         /\ parent[calls[a].node] = Undefined
         /\ calls[b].node \in Descendants(calls[a].node))
        => /\ calls[a].inst = calls[b].inst
           /\ FactoryRuns(calls[a].entry) = 1

\* The node state that a failing resolve must leave alone.
NodeState == <<parent, services, scopes, scopesCleared, isDisposed, entries, insts, thrown>>

Chain(n) == {n} \cup Ancestors(n)

\* C8: resolve(token) on a non-disposed node, with the token registered
\* neither on the node nor on an ancestor, fails with NotRegistered naming the
\* token, invokes no factory and changes no state.
C8_Inv ==
    \A c \in ResolveCalls :
        (/\ calls[c].pc = "done"
         /\ ~has(calls[c].node, calls[c].token)
         /\ \A m \in Chain(calls[c].node) : ~isDisposed[m])
        => /\ calls[c].err = "NotRegistered"
           /\ calls[c].errToken = calls[c].token
           /\ calls[c].inst = Undefined
           /\ calls[c].entry = Undefined
           /\ ~insts[c].made

C8_Frame ==
    \A c \in CallIds :
        (calls[c].pc = "lookup" /\ calls'[c] # calls[c]) => UNCHANGED NodeState

InstancesOf(n) == {i \in 1..Len(insts) : insts[i].made /\ insts[i].node = n}

\* C9: when dispose() runs on a node n, every descendant of n is marked
\* disposed and every dispose invocation on a descendant's instance has
\* completed before the first dispose invocation on an instance of n starts.
C9_Order ==
    \A i \in 1..Len(insts) :
        (/\ insts'[i].started > insts[i].started
         /\ \A k \in InstancesOf(insts[i].node) : insts[k].started = 0)
        => \A d \in Descendants(insts[i].node) :
                /\ isDisposed[d]
                /\ \A j \in InstancesOf(d) : insts[j].started = insts[j].finished

C9_ChildrenBeforeParent == [][C9_Order]_vars

\* C10: a dispose() call made on a node after an earlier dispose() on it has
\* completed returns at once, without any side effect; so does the dispose()
\* that a parent's cascade calls on an already disposed child.
C10_Inv ==
    \A d \in DisposeCalls :
        (\E c \in calls[d].after : calls[c].op = "dispose" /\ calls[c].node = calls[d].node)
        => calls[d].pc = "done" /\ calls[d].stack = <<>>

C10_Frame ==
    /\ \A c \in CallIds :
            Len(calls'[c].stack) > Len(calls[c].stack)
            => ~isDisposed[calls'[c].stack[Len(calls'[c].stack)].node]
    /\ (/\ Len(calls') > Len(calls)
        /\ calls'[Len(calls')].op = "dispose"
        /\ isDisposed[calls'[Len(calls')].node])
       => /\ UNCHANGED <<parent, services, scopes, scopesCleared, isDisposed, entries, thrown>>
          /\ calls'[Len(calls')].pc = "done"
          /\ \A c \in CallIds : calls'[c] = calls[c] /\ insts'[c] = insts[c]

C10_DisposeIdempotent == []C10_Inv /\ [][C10_Frame]_vars

\* A second dispose() was called on a node with a child after the first one
\* had completed and had disposed a cached instance.
C10_Witness ==
    \E d, c \in DisposeCalls :
        /\ c \in calls[d].after
        /\ calls[c].node = calls[d].node
        /\ Descendants(calls[d].node) # {}
        /\ \E i \in InstancesOf(calls[d].node) :
                insts[i].started = 1 /\ insts[i].finished = 1

\* The activations of dispose() on node n that are under way: call c, frame k.
DisposeFrames(n) ==
    {ck \in UNION {{c} \X (1..Len(calls[c].stack)) : c \in CallIds} :
        calls[ck[1]].stack[ck[2]].node = n}

\* C11: when dispose() is called on a node while an earlier dispose() call on
\* it is still suspended, every cached instance of the node has its dispose
\* operation invoked at most once over both calls, and beforeDispose and
\* afterDispose run at most once (no two activations of dispose() on the node).
C11_OverlappingDispose ==
    \A a, b \in DisposeCalls :
        (Overlap(a, b) /\ calls[a].node = calls[b].node)
        => /\ \A i \in InstancesOf(calls[a].node) : insts[i].started <= 1
           /\ Cardinality(DisposeFrames(calls[a].node)) <= 1

\* The entries and nodes that a step creates, and the call it issues.
NewEntries == (Len(entries) + 1)..Len(entries')
NewNodes == (Len(parent) + 1)..Len(parent')
Issued(op, n) ==
    /\ Len(calls') = Len(calls) + 1
    /\ calls'[Len(calls')].op = op
    /\ calls'[Len(calls')].node = n

\* C12: once dispose() has set a node's flag (it does before it returns),
\* register, resolve and createScope on that node fail with Disposed and
\* change nothing: no entry is added, no factory is invoked, no child scope
\* is created.
C12_Inv ==
    /\ \A th \in thrown : th.err = "Disposed" /\ isDisposed[th.node]
    /\ \A c \in ResolveCalls :
            (calls[c].err = "Disposed" /\ calls[c].cur = calls[c].node)
            => ~insts[c].made /\ calls[c].entry = Undefined /\ calls[c].inst = Undefined

C12_Frame ==
    /\ \A n \in Nodes : isDisposed[n] =>
            /\ \A e \in NewEntries : entries'[e].node # n
            /\ services'[n] = services[n]
            /\ \A m \in NewNodes : parent'[m] # n
            /\ scopes'[n] = scopes[n]
            /\ Issued("resolve", n) =>
                    /\ calls'[Len(calls')].pc = "done"
                    /\ calls'[Len(calls')].err = "Disposed"
                    /\ insts' = Append(insts, NoInstance)
                    /\ \A c \in CallIds : calls'[c] = calls[c]
                    /\ UNCHANGED <<parent, services, scopes, scopesCleared, isDisposed, entries, thrown>>
    /\ thrown' # thrown =>
            UNCHANGED <<parent, services, scopes, scopesCleared, isDisposed, entries, insts, calls>>

C12_PostDisposalRejection == []C12_Inv /\ [][C12_Frame]_vars

\* dispose() has completed on a node that held a registration; after that
\* a register() and a createScope() on it threw and a resolve() was rejected.
C12_Witness ==
    \E n \in Nodes, d \in DisposeCalls, c \in ResolveCalls :
        /\ calls[d].node = n /\ calls[d].pc = "done" /\ isDisposed[n]
        /\ d \in calls[c].after /\ calls[c].node = n /\ calls[c].err = "Disposed"
        /\ [op |-> "register", node |-> n, err |-> "Disposed"] \in thrown
        /\ [op |-> "createScope", node |-> n, err |-> "Disposed"] \in thrown
        /\ \E e \in 1..Len(entries) : entries[e].node = n

\* C13: a node's flag is false when the node is created, and once it is true
\* it stays true, whatever is called afterwards on any node.
C13_Step ==
    /\ \A n \in Nodes : isDisposed[n] => isDisposed'[n]
    /\ \A m \in NewNodes : ~isDisposed'[m]

C13_FlagMonotonic == (\A n \in Nodes : ~isDisposed[n]) /\ [][C13_Step]_vars

\* A scope is disposed, and after that a register() and a createScope() on
\* it threw and another dispose() on it returned; its parent is in use.
C13_Witness ==
    \E n \in Nodes, a, b \in DisposeCalls :
        /\ isDisposed[n] /\ parent[n] # Undefined /\ ~isDisposed[parent[n]]
        /\ calls[a].node = n /\ calls[b].node = n /\ a \in calls[b].after
        /\ calls[b].pc = "done"
        /\ [op |-> "register", node |-> n, err |-> "Disposed"] \in thrown
        /\ [op |-> "createScope", node |-> n, err |-> "Disposed"] \in thrown

\* The tokens of a Map.
Keys(m) == {m[i].token : i \in 1..Len(m)}

\* C14: right after createScope() on n, the child's own Map holds exactly the
\* tokens of n's non-singleton entries, each as a new entry with the same
\* factory and scope as in n and with no instance, also when n's entry holds
\* one; n's singleton tokens are not in the child's Map.
C14_Step ==
    \A m \in NewNodes :
        LET n == parent'[m]
        IN  /\ Keys(services'[m]) =
                    {t \in Keys(services[n]) : entries[MapGet(services[n], t)].scope # "singleton"}
            /\ \A t \in Keys(services'[m]) :
                    LET src == entries[MapGet(services[n], t)]
                        new == entries'[MapGet(services'[m], t)]
                    IN  /\ MapGet(services'[m], t) \in NewEntries
                        /\ new.factory = src.factory
                        /\ new.scope = src.scope
                        /\ new.instance = Undefined
            /\ \A t \in Keys(services[n]) :
                    entries[MapGet(services[n], t)].scope = "singleton"
                    => MapGet(services'[m], t) = Undefined

C14_ScopeCopy == [][C14_Step]_vars

\* A scope that has cached its scoped entry has created a scope of its own,
\* whose copy of the entry holds no instance.
C14_Witness ==
    \E m \in Nodes, t \in UsedTokens :
        /\ parent[m] # Undefined
        /\ MapGet(services[m], t) # Undefined
        /\ MapGet(services[parent[m]], t) # Undefined
        /\ entries[MapGet(services[m], t)].origin = "copy"
        /\ entries[MapGet(services[m], t)].instance = Undefined
        /\ Cached(MapGet(services[parent[m]], t))

\* The entry made last for token t in node n.
LatestEntry(n, t) ==
    LET es == {e \in 1..Len(entries) : entries[e].node = n /\ entries[e].token = t}
    IN  CHOOSE e \in es : \A x \in es : x <= e

\* A step of register(): it adds one entry and no node.
Registers == NewEntries # {} /\ NewNodes = {}

\* C15: register is accepted for a token that is registered already, and the
\* last registration wins: the node's Map holds one entry per token, the one
\* registered last and with no instance, and a resolve that looks the token
\* up in the node gets that entry, its factory and its lifetime.
C15_Inv ==
    /\ \A n \in Nodes : \A i, j \in 1..Len(services[n]) :
            /\ services[n][i].token = services[n][j].token => i = j
            /\ services[n][i].entry = LatestEntry(n, services[n][i].token)
    /\ \A n \in Nodes, t \in UsedTokens :
            ~isDisposed[n] => ENABLED Register(n, t, "Disposable", "transient")
    /\ \A c \in ResolveCalls : insts[c].made =>
            /\ insts[c].entry = calls[c].entry
            /\ insts[c].factory = entries[calls[c].entry].factory
            /\ calls[c].cache <=> CachesOn(calls[c].cur, calls[c].entry)

C15_Frame ==
    /\ Registers =>
            LET e == Len(entries')
            IN  /\ MapGet(services'[entries'[e].node], entries'[e].token) = e
                /\ entries'[e].instance = Undefined
    /\ \A c \in ResolveCalls :
            (calls[c].pc = "lookup" /\ calls'[c].pc = "policy")
            => calls'[c].entry = LatestEntry(calls[c].cur, calls[c].token)

C15_LastRegistrationWins == []C15_Inv /\ [][C15_Frame]_vars

\* A token was registered, resolved and cached, then registered again on the
\* same node, and a later resolve has returned an instance of the second
\* registration.
C15_Witness ==
    \E a, b \in ResolveCalls :
        /\ Returned(a) /\ Returned(b) /\ a \in calls[b].after
        /\ calls[a].node = calls[b].node /\ calls[a].token = calls[b].token
        /\ calls[a].cur = calls[a].node /\ calls[b].cur = calls[b].node
        /\ calls[a].entry < calls[b].entry
        /\ entries[calls[a].entry].origin = "register"
        /\ entries[calls[b].entry].origin = "register"
        /\ Cached(calls[a].entry)
        /\ insts[b].made /\ insts[b].entry = calls[b].entry

\* C16: register(token) on a node changes that node's entry for that token
\* and nothing else: the Maps of the other nodes, every existing entry with
\* its instance and the node's other tokens stay as they are; and a lookup
\* takes the node's own entry when there is one, so that a child's
\* registration shadows the ancestor's for the child only.
C16_Inv ==
    \A c \in ResolveCalls : calls[c].entry # Undefined =>
        /\ entries[calls[c].entry].node = calls[c].cur
        /\ calls[c].cur \in Chain(calls[c].node)

C16_Frame ==
    /\ Registers =>
            LET n == entries'[Len(entries')].node
                t == entries'[Len(entries')].token
            IN  /\ \A m \in Nodes \ {n} : services'[m] = services[m]
                /\ \A x \in 1..Len(entries) : entries'[x] = entries[x]
                /\ \A i \in 1..Len(services[n]) :
                        services[n][i].token # t => services'[n][i] = services[n][i]
                /\ Keys(services'[n]) = Keys(services[n]) \cup {t}
                /\ UNCHANGED <<parent, scopes, scopesCleared, isDisposed, insts, calls>>
    /\ \A c \in ResolveCalls :
            (calls[c].pc = "lookup" /\ MapGet(services[calls[c].cur], calls[c].token) # Undefined
                /\ calls'[c] # calls[c])
            => /\ calls'[c].cur = calls[c].cur
               /\ calls'[c].entry = MapGet(services[calls[c].cur], calls[c].token)

C16_RegisterIsLocal == []C16_Inv /\ [][C16_Frame]_vars

\* A token of the root was registered on an existing scope as well; a
\* resolve on the scope has returned an instance of the scope's entry and a
\* resolve on the root one of the root's entry.
C16_Witness ==
    \E a, b \in ResolveCalls :
        /\ Returned(a) /\ Returned(b)
        /\ calls[a].token = calls[b].token
        /\ parent[calls[a].node] = calls[b].node
        /\ entries[calls[a].entry].node = calls[a].node
        /\ entries[calls[a].entry].origin = "register"
        /\ entries[calls[b].entry].node = calls[b].node
        /\ insts[a].made /\ insts[b].made /\ calls[a].inst # calls[b].inst

\* The entries that node n's Map held last: per token, the one made last.
LiveEntries(n) ==
    {e \in 1..Len(entries) :
        entries[e].node = n /\ e = LatestEntry(n, entries[e].token)}

\* No resolve() was in flight while a dispose() was, and the reverse.
NoResolveInFlight ==
    \A r \in ResolveCalls, d \in DisposeCalls : ~Overlap(r, d) /\ ~Overlap(d, r)

\* dispose() has completed on node n: the flag is set and no activation of
\* dispose() on n is under way.
DisposeCompleted(n) == isDisposed[n] /\ DisposeFrames(n) = {}

\* Every instance cached on an entry of n's Map was handled as disposeService
\* does: dispose() invoked once and completed when it has one, nothing
\* otherwise; and the Map is empty.
TornDown(n) ==
    /\ services[n] = <<>>
    /\ \A e \in LiveEntries(n) : Cached(e) =>
            LET i == entries[e].instance
            IN  IF isDisposable(i)
                THEN insts[i].started = 1 /\ insts[i].finished = 1
                ELSE insts[i].started = 0 /\ insts[i].finished = 0

\* C17: after dispose() has completed on a node on which no resolution was in
\* flight, every instance cached on one of the node's entries that has a
\* dispose operation has had it invoked exactly once, the others were
\* skipped, and the node's Map is empty.
C17_DisposesInstances ==
    \A n \in Nodes : (DisposeCompleted(n) /\ NoResolveInFlight) => TornDown(n)

\* C17 restricted to dispose() calls that never overlapped.
C17_WithoutOverlap ==
    \A n \in Nodes :
        (/\ DisposeCompleted(n) /\ NoResolveInFlight
         /\ \A a, b \in DisposeCalls : ~Overlap(a, b))
        => TornDown(n)

\* The instances cached on the entries of node n's Map.
CachedInstances(n) ==
    {entries[e].instance : e \in {x \in LiveEntries(n) : Cached(x)}}

\* C18: when the dispose operation of a cached instance has failed while
\* dispose() ran on node n (no resolution being in flight), the failure is
\* reported to the caller of dispose(), and the dispose operation of every
\* other disposable instance that n and its child scopes had cached when
\* dispose() was called (the instance of a resolve that had returned by
\* then) has been invoked all the same.
C18_Inv ==
    \A d \in DisposeCalls :
        (calls[d].pc = "done" /\ calls[d].err = "DisposeFailed" /\ NoResolveInFlight)
        => \A m \in {calls[d].node} \cup Descendants(calls[d].node) :
                \A i \in CachedInstances(m) \cap calls[d].after :
                    isDisposable(i) => insts[i].started >= 1

C18_Reported ==
    \A c \in DisposeCalls :
        (\E i \in 1..Len(insts) :
            insts[i].factory = "Failing" /\ insts'[i].finished > insts[i].finished
            /\ calls[c].pc = "run" /\ Top(c).wait = i /\ calls'[c] # calls[c])
        => calls'[c].pc = "done" /\ calls'[c].err = "DisposeFailed"

C18_FailureDoesNotAbort == []C18_Inv /\ [][C18_Reported]_vars

\* Entry e has a scope that is none of singleton, transient, scoped.
UnknownScope(e) == entries[e].scope \notin Scopes

\* C19: resolving an entry whose scope is none of singleton, transient,
\* scoped fails with UnknownScope naming the scope value; the factory is not
\* invoked, nothing is cached and no state changes.
C19_Inv ==
    /\ \A e \in 1..Len(entries) : UnknownScope(e) => entries[e].instance = Undefined
    /\ \A c \in ResolveCalls :
            (calls[c].entry # Undefined /\ UnknownScope(calls[c].entry))
            => /\ ~insts[c].made /\ calls[c].inst = Undefined
               /\ calls[c].pc \in {"policy", "done"}
               /\ calls[c].pc = "done" =>
                    /\ calls[c].err = "UnknownScope"
                    /\ calls[c].errScope = entries[calls[c].entry].scope

C19_Frame ==
    \A c \in ResolveCalls :
        (calls[c].pc = "policy" /\ UnknownScope(calls[c].entry) /\ calls'[c] # calls[c])
        => UNCHANGED NodeState

C19_UnknownScope == []C19_Inv /\ [][C19_Frame]_vars

\* A resolve on a scope has failed on the copy of an entry that was
\* registered on the root with the scope "custom".
C19_Witness ==
    \E c \in ResolveCalls :
        /\ calls[c].pc = "done" /\ calls[c].err = "UnknownScope"
        /\ calls[c].errScope = "custom"
        /\ entries[calls[c].entry].origin = "copy"
        /\ parent[calls[c].cur] # Undefined

\* Entry e was registered without a scope.
DefaultScoped(e) == entries[e].meta = "undefined"

\* C20: a token registered without a scope has the singleton lifetime: its
\* entry has the scope singleton, all resolutions on the registering node
\* return one instance, and createScope() never copies the entry.
C20_DefaultIsSingleton ==
    /\ \A e \in 1..Len(entries) :
            DefaultScoped(e) => entries[e].scope = "singleton" /\ entries[e].origin = "register"
    /\ \A a, b \in ResolveCalls :
            (SameOwnEntry(a, b) /\ DefaultScoped(calls[a].entry))
            => calls[a].inst = calls[b].inst

\* C20 restricted to registrations whose resolutions never overlapped.
C20_WithoutOverlap ==
    /\ \A e \in 1..Len(entries) :
            DefaultScoped(e) => entries[e].scope = "singleton" /\ entries[e].origin = "register"
    /\ \A a, b \in ResolveCalls :
            (SameOwnEntry(a, b) /\ DefaultScoped(calls[a].entry) /\ NoRace(calls[a].entry))
            => /\ calls[a].inst = calls[b].inst
               /\ FactoryRuns(calls[a].entry) = 1

\* C21: whenever an instance is created, the factory is invoked with the node
\* that holds the entry: the registering ancestor for a singleton reached by
\* delegation, the scope itself for an entry copied into a scope.
C21_FactoryArgument ==
    \A c \in ResolveCalls : insts[c].made =>
        /\ insts[c].node = entries[insts[c].entry].node
        /\ insts[c].node \in Chain(calls[c].node)
        /\ entries[insts[c].entry].origin = "copy" => insts[c].node = calls[c].node

\* A scope has created an instance of the root's singleton by delegation and
\* an instance of its own copy of a scoped or transient entry.
C21_Witness ==
    \E a, b \in ResolveCalls :
        /\ insts[a].made /\ insts[b].made
        /\ calls[a].node = calls[b].node
        /\ insts[a].node = parent[calls[a].node]
        /\ entries[insts[a].entry].scope = "singleton"
        /\ insts[b].node = calls[b].node
        /\ entries[insts[b].entry].origin = "copy"

\* Call c is a resolve of an entry whose factory resolves another token, and
\* that resolve has returned an instance.
NestedReturned(c) ==
    /\ calls[c].op = "resolve" /\ insts[c].made /\ insts[c].factory = "Nested"
    /\ NestedCalls(c) # {}
    /\ \A d \in NestedCalls(c) : Returned(d)

\* C22: re-entrant resolution does not deadlock.  Whenever resolve() calls
\* are under way, they all eventually complete (a completed call stays so),
\* the one whose factory awaits a resolve() on the same node included; and
\* when that inner resolve has returned an instance, the outer one returns
\* an instance of its own entry, whatever the two lifetimes.
C22_Inv ==
    \A c \in ResolveCalls :
        (NestedReturned(c) /\ calls[c].pc = "done")
        => /\ calls[c].err = "none"
           /\ calls[c].inst \in CallIds
           /\ insts[calls[c].inst].made
           /\ insts[calls[c].inst].entry = calls[c].entry

\* The resolve() calls that have not completed yet.
Unresolved == {c \in ResolveCalls : calls[c].pc # "done"}

C22_ReentrantResolve ==
    /\ []C22_Inv
    /\ (Unresolved # {}) ~> (Unresolved = {})

\* A resolve() whose factory resolved another token on the same node has
\* returned its instance.
C22_Witness ==
    \E c \in ResolveCalls :
        /\ NestedReturned(c) /\ Returned(c)
        /\ calls[c].caller = Undefined
        /\ \A d \in NestedCalls(c) : calls[d].node = insts[c].node /\ insts[d].made

\* What the normal lookup makes of call c: the entry of the current node, else
\* the parent, else the missing-service error.
Looked(c) ==
    LET n == calls[c].cur
        e == MapGet(services[n], calls[c].token)
    IN  IF e # Undefined
        THEN [calls[c] EXCEPT !.entry = e, !.pc = "policy",
                              !.events = Append(calls[c].events, "beforeResolve")]
        ELSE IF parent[n] = Undefined
        THEN [calls[c] EXCEPT !.pc = "done", !.err = "NotRegistered",
                              !.errToken = calls[c].token]
        ELSE IF isDisposed[parent[n]]
        THEN [calls[c] EXCEPT !.pc = "done", !.err = "Disposed"]
        ELSE [calls[c] EXCEPT !.cur = parent[n]]

\* resolve() calls that wait for tryCustomResolve of the node they were
\* called on.
AtHook == {c \in ResolveCalls : calls[c].pc = "lookup" /\ calls[c].cur = calls[c].node}

\* C23: a call that waits for tryCustomResolve of its own node has looked up
\* nothing and invoked nothing.  When the hook yields a defined value the call
\* returns exactly that value at once: no entry, no delegation, no factory,
\* no cache write, no hook (the call is done and nothing else changes).  When
\* it yields undefined the call goes on with the normal lookup.
C23_Inv ==
    \A c \in AtHook :
        /\ calls[c].entry = Undefined /\ calls[c].inst = Undefined
        /\ calls[c].err = "none" /\ ~insts[c].made

C23_Frame ==
    \A c \in AtHook :
        calls'[c] # calls[c] =>
            /\ UNCHANGED NodeState
            /\ \A d \in CallIds \ {c} : calls'[d] = calls[d]
            /\ IF calls'[c].inst = CustomValue
               THEN calls'[c] = [calls[c] EXCEPT !.pc = "done", !.inst = CustomValue]
               ELSE calls'[c] = Looked(c)

C23_CustomResolve == []C23_Inv /\ [][C23_Frame]_vars

\* The hook has answered for a token that the node has an entry for, and it
\* has yielded undefined for another call, which found the entry.
C23_Witness ==
    \E c, d \in ResolveCalls :
        /\ calls[c].pc = "done" /\ calls[c].inst = CustomValue
        /\ calls[c].cur = calls[c].node
        /\ MapGet(services[calls[c].node], calls[c].token) # Undefined
        /\ calls[d].node = calls[c].node /\ calls[d].entry # Undefined

\* The last builder call made for token t, 0 if there is none.
LastRegistration(t) ==
    LET is == {i \in 1..Len(registrations) : registrations[i].token = t}
    IN  IF is = {} THEN 0 ELSE CHOOSE i \in is : \A j \in is : j <= i

\* The entries that node n holds.
EntriesOf(n) == {services[n][i].entry : i \in 1..Len(services[n])}

\* C24: build() returns a new container: a node that did not exist, without
\* a parent, not disposed, that has every token passed to the builder and
\* nothing else, each with the lifetime and factory of the last builder call
\* for it and no instance, in entries no other node holds.  Two containers
\* that build() returned never hold the same entry or the same cached
\* instance.
C24_Frame ==
    built' # built =>
        LET b == built'[Len(built')]
        IN  /\ Len(built') = Len(built) + 1
            /\ b \notin Nodes /\ b \in 1..Len(parent')
            /\ parent'[b] = Undefined /\ ~isDisposed'[b] /\ scopes'[b] = <<>>
            /\ {services'[b][i].token : i \in 1..Len(services'[b])}
                    = {registrations[i].token : i \in 1..Len(registrations)}
            /\ \A i \in 1..Len(services'[b]) :
                    LET e == services'[b][i].entry
                        r == registrations[LastRegistration(services'[b][i].token)]
                    IN  /\ e \notin 1..Len(entries)
                        /\ entries'[e].token = services'[b][i].token
                        /\ entries'[e].scope = r.scope
                        /\ entries'[e].factory = r.factory
                        /\ entries'[e].instance = Undefined
            /\ \A n \in Nodes : /\ services'[n] = services[n]
                                /\ isDisposed'[n] = isDisposed[n]
                                /\ parent'[n] = parent[n]
            /\ UNCHANGED <<calls, insts, registrations>>

C24_Inv ==
    \A i, j \in 1..Len(built) :
        i # j =>
            /\ EntriesOf(built[i]) \cap EntriesOf(built[j]) = {}
            /\ \A e \in EntriesOf(built[i]), f \in EntriesOf(built[j]) :
                    Cached(e) => entries[e].instance # entries[f].instance

C24_Build == []C24_Inv /\ [][C24_Frame]_vars

\* Two containers were built from a builder that was given the same token
\* twice, with two lifetimes, and each has cached an instance of a singleton.
C24_Witness ==
    /\ Len(built) = 2
    /\ \E i, j \in 1..Len(registrations) :
            /\ i < j /\ registrations[i].token = registrations[j].token
            /\ registrations[i].scope # registrations[j].scope
    /\ \A i \in 1..2 : \E e \in EntriesOf(built[i]) : Cached(e)

\* The names of registry r, as a set.
NameSet(r) == {tokens[r][i].name : i \in 1..Len(tokens[r])}

\* C25: create(name) fails with the already-exists error exactly when the
\* name is in the registry, and then changes nothing; otherwise it adds the
\* name and nothing else.  In every state size is the number of names that
\* getNames() returns, and has(name) holds exactly for them.
C25_Inv ==
    \A r \in Registries :
        /\ size(r) = Cardinality(NameSet(r))
        /\ Len(getNames(r)) = size(r)
        /\ \A name \in Names :
                TokHas(tokens[r], name) <=> \E i \in 1..size(r) : getNames(r)[i] = name

C25_Frame ==
    (last' # last /\ last'.fn = "create") =>
        LET r == last'.reg
            name == last'.name
        IN  /\ (last'.err = "AlreadyExists") <=> (name \in NameSet(r))
            /\ last'.err \in {"AlreadyExists", "none"}
            /\ IF name \in NameSet(r)
               THEN tokens' = tokens
               ELSE /\ [i \in 1..Len(tokens'[r]) |-> tokens'[r][i].name]
                            = Append(getNames(r), name)
                    /\ \A q \in Registries \ {r} : tokens'[q] = tokens[q]

C25_Create == []C25_Inv /\ [][C25_Frame]_vars

\* create has failed in a registry that holds two names, and tokens of two
\* names have been returned.
C25_Witness ==
    /\ last.fn = "create" /\ last.err = "AlreadyExists"
    /\ \E x \in named : x.name # last.name
    /\ size(last.reg) = 2

\* C26: the by-name calls return one token per name, whatever the state and
\* the registry; a unique token differs from every other unique token and
\* from every token a by-name call returns, and is new when it is made.
C26_Inv ==
    /\ \A x, y \in named : x.name = y.name => x.token = y.token
    /\ \A i, j \in 1..Len(uniques) : i # j => uniques[i].token # uniques[j].token
    /\ \A i \in 1..Len(uniques), x \in named : uniques[i].token # x.token
    /\ \A r \in Registries : \A i \in 1..Len(tokens[r]) :
            [name |-> tokens[r][i].name, token |-> tokens[r][i].token] \in named

C26_Frame ==
    /\ Len(uniques') > Len(uniques) =>
            LET u == uniques'[Len(uniques')].token
            IN  /\ \A x \in named : x.token # u
                /\ \A i \in 1..Len(uniques) : uniques[i].token # u
                /\ \A name \in Names : symbolFor[name] # u
    /\ (last' # last /\ last'.fn \in {"createToken", "get", "create", "ensure"}
            /\ last'.err = "none") =>
            /\ [name |-> last'.name, token |-> last'.token] \in named'
            /\ last'.token # Undefined

C26_TokenIdentity == []C26_Inv /\ [][C26_Frame]_vars

\* A name was asked for through createToken and through both registries, one
\* of which had lost it in between, and two unique tokens were made for one
\* description.
C26_Witness ==
    /\ Len(uniques) = 2 /\ uniques[1].name = uniques[2].name
    /\ last.fn \in {"get", "create", "ensure"} /\ last.reg = "other" /\ last.err = "none"
    /\ symbolFor[last.name] # Undefined /\ symbolFor[last.name] < uniques[1].token
    /\ ~TokHas(tokens["global"], last.name)
    /\ \E x \in named : x.name # last.name

\* C27: a resolve() of a caching lifetime on the node it was called on, that
\* was suspended in its factory when dispose() was called on that node, does
\* not escape the teardown: once both calls have finished, the resolve has
\* failed or the dispose operation of the instance it made has been invoked.
C27_NoEscape ==
    \A r \in ResolveCalls, d \in DisposeCalls :
        (/\ r \in calls[d].inFactory
         /\ calls[r].node = calls[d].node /\ calls[r].cur = calls[d].node
         /\ calls[r].cache
         /\ calls[r].pc = "done" /\ calls[d].pc = "done" /\ calls[d].err = "none"
         /\ isDisposable(r))
        => \/ calls[r].err # "none"
           \/ insts[r].started >= 1

\* The scopes that createScope() has returned for node n.
ScopesOf(n) == {m \in Nodes : parent[m] = n}

\* C28: in every state, when a node is disposed, every scope that
\* createScope() ever returned for it is disposed too, a scope created while
\* a dispose() call on the node was suspended included.
C28_ScopesDisposed ==
    \A n \in Nodes : isDisposed[n] => \A m \in ScopesOf(n) : isDisposed[m]

\* resolve() call c on a scope has returned an instance of a scoped token
\* that the scope has no entry for, its Map never having been cleared: the
\* token was registered as scoped on the scope's parent after the scope was
\* created, and the call resolved that registration.
LateScoped(c) ==
    /\ Returned(c)
    /\ parent[calls[c].node] # Undefined
    /\ ~isDisposed[calls[c].node]
    /\ MapGet(services[calls[c].node], calls[c].token) = Undefined
    /\ calls[c].entry # Undefined
    /\ entries[calls[c].entry].node = parent[calls[c].node]
    /\ entries[calls[c].entry].origin = "register"
    /\ entries[calls[c].entry].scope = "scoped"

\* C29: a token registered as scoped on a node after a scope S was created
\* from it still yields one instance per scope: two resolutions on S, one
\* after the other, return the same instance, and a resolution on a sibling
\* scope returns another one.
C29_LateScoped ==
    \A a, b \in ResolveCalls :
        (/\ LateScoped(a) /\ LateScoped(b)
         /\ calls[a].entry = calls[b].entry
         /\ a \in calls[b].after)
        => IF calls[a].node = calls[b].node
           THEN calls[a].inst = calls[b].inst
           ELSE calls[a].inst # calls[b].inst

\* C30: every disposable instance that a node had cached when dispose() was
\* called on it has had its dispose operation invoked once that dispose()
\* has returned, also when the entry that holds the instance was replaced in
\* the node's Map by a later register() of its token.
C30_ReplacedEntry ==
    \A d \in DisposeCalls, i \in ResolveCalls :
        (/\ calls[d].pc = "done" /\ calls[d].err = "none"
         /\ i \in calls[d].after
         /\ insts[i].made /\ isDisposable(i)
         /\ entries[insts[i].entry].instance = i
         /\ entries[insts[i].entry].node = calls[d].node)
        => insts[i].started >= 1

\* C31: caching does not depend on the value produced.  For an entry of a
\* caching lifetime (singleton, scoped in a scope) whose resolutions never
\* overlapped, a resolve issued after another one of the same entry has
\* returned does not invoke the factory again, also when the factory returns
\* a falsy value.
C31_FalsyCached ==
    \A a, b \in ResolveCalls :
        (/\ SameOwnEntry(a, b)
         /\ CachesOn(calls[a].node, calls[a].entry)
         /\ NoRace(calls[a].entry)
         /\ a \in calls[b].after)
        => ~insts[b].made

\* C31 for factories that return an object: this the code does guarantee.
C31_Truthy ==
    \A a, b \in ResolveCalls :
        (/\ SameOwnEntry(a, b)
         /\ CachesOn(calls[a].node, calls[a].entry)
         /\ NoRace(calls[a].entry)
         /\ entries[calls[a].entry].factory # "Falsy"
         /\ a \in calls[b].after)
        => ~insts[b].made /\ calls[b].inst = calls[a].inst

\* Everything node m holds is the same after the step: its Map, its entries
\* and the instances cached on them, its scopes, its flag, and the instances
\* made for it with the dispose invocations they have seen.
NodeUnchanged(m) ==
    /\ services'[m] = services[m]
    /\ scopes'[m] = scopes[m] /\ scopesCleared'[m] = scopesCleared[m]
    /\ isDisposed'[m] = isDisposed[m]
    /\ parent'[m] = parent[m]
    /\ \A e \in 1..Len(entries) : entries[e].node = m => entries'[e] = entries[e]
    /\ \A i \in 1..Len(insts) : insts[i].node = m => insts'[i] = insts[i]

\* C32: no step of a dispose() call on a scope, its being called included,
\* changes an ancestor of the scope: the ancestors' Maps, entries, cached
\* instances, scopes and disposed flags stay as they are, and no instance made
\* for an ancestor has its dispose operation invoked.
C32_Frame ==
    \A d \in 1..Len(calls') :
        (/\ calls'[d].op = "dispose"
         /\ (d \in CallIds => calls'[d] # calls[d]))
        => \A m \in Ancestors(calls'[d].node) : NodeUnchanged(m)

C32_AncestorsUntouched == [][C32_Frame]_vars

\* dispose() has returned on a scope through which a disposable singleton of
\* the root was resolved first: the root is not disposed and still holds the
\* instance, whose dispose operation was not invoked.
C32_Witness ==
    \E d \in DisposeCalls, r \in ResolveCalls :
        /\ calls[d].pc = "done" /\ isDisposed[calls[d].node]
        /\ r \in calls[d].after
        /\ calls[r].node = calls[d].node
        /\ parent[calls[d].node] # Undefined
        /\ Returned(r) /\ insts[r].made /\ isDisposable(r)
        /\ insts[r].node = parent[calls[d].node]
        /\ entries[insts[r].entry].instance = r
        /\ insts[r].started = 0
        /\ ~isDisposed[parent[calls[d].node]]

IsPrefix(s, t) == Len(s) <= Len(t) /\ \A i \in 1..Len(s) : s[i] = t[i]

\* resolve() calls that found their entry in the node they were called on.
FoundHere == {c \in ResolveCalls : calls[c].entry # Undefined /\ calls[c].cur = calls[c].node}

\* What such a call invokes, in order: with an instance created, and on a
\* cache hit.
EventsOf(c) ==
    IF insts[c].made
    THEN <<"beforeResolve", "factory",
           IF entries[calls[c].entry].scope = "singleton" THEN "onSingletonCreated"
           ELSE IF entries[calls[c].entry].scope = "transient" THEN "onTransientCreated"
           ELSE IF parent[calls[c].node] # Undefined THEN "onScopedCreated"
           ELSE "onTransientCreated",
           "afterResolve">>
    ELSE <<"beforeResolve", "afterResolve">>

\* C33: a resolution that finds its entry in the current node invokes
\* beforeResolve, then, only when it creates an instance, the factory and
\* the creation hook of the lifetime, then afterResolve, in this order and
\* each once; a cache hit invokes neither factory nor creation hook and
\* takes the instance cached on the entry; and resolve returns the instance
\* it created or the one cached on the entry.
C33_Inv ==
    \A c \in FoundHere :
        /\ IsPrefix(calls[c].events, EventsOf(c))
        /\ Returned(c) =>
                /\ calls[c].events = EventsOf(c)
                /\ calls[c].inst # Undefined
                /\ insts[calls[c].inst].made
                /\ insts[calls[c].inst].entry = calls[c].entry
                /\ (insts[c].made /\ ~calls[c].cache) => calls[c].inst = c
                /\ ~insts[c].made => calls[c].inst # c

C33_Frame ==
    \A c \in FoundHere :
        /\ (calls[c].pc = "policy" /\ calls'[c].pc = "after") =>
                /\ Cached(calls[c].entry)
                /\ calls'[c].inst = entries[calls[c].entry].instance
                /\ UNCHANGED <<entries, insts>>
        /\ (calls[c].pc = "hook" /\ calls'[c].pc = "after") =>
                calls'[c].inst \in {c, entries[calls[c].entry].instance}
        /\ (calls[c].pc = "after" /\ calls'[c].pc = "done") =>
                calls'[c].inst = calls[c].inst

C33_EventOrder == []C33_Inv /\ [][C33_Frame]_vars

\* A resolve on a scope created the instance of a scoped entry, and a later
\* one returned it from the cache.
C33_Witness ==
    \E a, b \in FoundHere :
        /\ Returned(a) /\ Returned(b) /\ a \in calls[b].after
        /\ calls[a].entry = calls[b].entry
        /\ calls[a].events = <<"beforeResolve", "factory", "onScopedCreated", "afterResolve">>
        /\ calls[b].events = <<"beforeResolve", "afterResolve">>
        /\ calls[b].inst = a

\* dispose() call c is about to invoke afterDispose on the node of its last
\* activation: the step that follows disposeServices.
AtAfterDispose(c) ==
    /\ calls[c].op = "dispose" /\ calls[c].pc = "run"
    /\ Top(c).pc = "clear" /\ calls'[c] # calls[c]

\* C34: in a dispose() that is not a no-op, afterDispose is invoked at a
\* point where every scope that the node created is disposed, the Map is
\* empty and the flag is set; and beforeDispose and afterDispose run at most
\* once per node (there are never two activations of dispose() on one node).
C34_AfterPoint ==
    \A c \in CallIds :
        AtAfterDispose(c) =>
            /\ services'[Top(c).node] = <<>>
            /\ isDisposed'[Top(c).node]
            /\ \A m \in ScopesOf(Top(c).node) : isDisposed'[m]

C34_Once == \A n \in Nodes : Cardinality(DisposeFrames(n)) <= 1

C34_DisposeHooks == []C34_Once /\ [][C34_AfterPoint]_vars

\* What the code does guarantee when afterDispose is invoked: the Map is
\* empty, the flag is set, and every scope that scopes.clear() has removed
\* was disposed or is being disposed by another call.
C34_WithoutWindow ==
    [][\A c \in CallIds :
        AtAfterDispose(c) =>
            /\ services'[Top(c).node] = <<>>
            /\ isDisposed'[Top(c).node]
            /\ \A j \in 1..scopesCleared[Top(c).node] :
                    \/ isDisposed[scopes[Top(c).node][j]]
                    \/ DisposeFrames(scopes[Top(c).node][j]) # {}]_vars

\* The tokens of the non-singleton entries in node n's Map.
CopiedTokens(n) == {CopiedSlots(n)[i].token : i \in 1..Len(CopiedSlots(n))}

\* C35: onScopeCreated fires once per createScope() call, for the scope that
\* the call returns, and finds it linked and populated: the scope is in the
\* creating node's Set, has that node as parent and holds every non-singleton
\* entry of the node.
C35_Inv ==
    /\ Len(scopeHooks) = Cardinality({m \in Nodes : parent[m] # Undefined})
    /\ \A i, j \in 1..Len(scopeHooks) :
            i # j => scopeHooks[i].scope # scopeHooks[j].scope
    /\ \A i \in 1..Len(scopeHooks) :
            /\ scopeHooks[i].scope \in Nodes
            /\ scopeHooks[i].parent = parent[scopeHooks[i].scope]
            /\ scopeHooks[i].parent # Undefined
            /\ scopeHooks[i].member

C35_Frame ==
    Len(parent') > Len(parent) /\ parent'[Len(parent')] # Undefined =>
        LET child == Len(parent')
            n == parent'[child]
            h == scopeHooks'[Len(scopeHooks')]
        IN  /\ Len(scopeHooks') = Len(scopeHooks) + 1
            /\ h.scope = child /\ h.parent = n /\ h.member
            /\ h.tokens = CopiedTokens(n)
            /\ \A t \in CopiedTokens(n) :
                    LET e == MapGet(services'[child], t)
                    IN  /\ e # Undefined /\ e \notin 1..Len(entries)
                        /\ entries'[e].scope = entries[MapGet(services[n], t)].scope
                        /\ entries'[e].factory = entries[MapGet(services[n], t)].factory

C35_ScopeCreatedHook == []C35_Inv /\ [][C35_Frame]_vars

\* The hook has fired for a scope that was given a copied entry, and for a
\* scope of that scope.
C35_Witness ==
    \E i, j \in 1..Len(scopeHooks) :
        /\ scopeHooks[i].tokens # {}
        /\ scopeHooks[j].parent = scopeHooks[i].scope

\* Token t is registered in node n: its Map has an entry for t.
RegisteredIn(n, t) == MapGet(services[n], t) # Undefined

\* C36: in every state, for every node n and token t, has(t) on n holds
\* exactly when t is in n.getTokens(), exactly when t is registered in n or
\* in an ancestor of n; and getTokens() lists no token twice.
C36_HasAndTokens ==
    \A n \in Nodes :
        /\ \A t \in 1..(RegTokens + 1) :
                /\ has(n, t) <=> \E i \in 1..Len(getTokens(n)) : getTokens(n)[i] = t
                /\ has(n, t) <=> \E m \in {n} \cup Ancestors(n) : RegisteredIn(m, t)
        /\ \A i, j \in 1..Len(getTokens(n)) :
                i # j => getTokens(n)[i] # getTokens(n)[j]

\* A scope holds a copy of one token of its parent and lacks the other one,
\* a singleton: getTokens() of the scope lists both.
C36_Witness ==
    \E n \in Nodes :
        /\ parent[n] # Undefined
        /\ Len(services[n]) = 1 /\ Len(services[parent[n]]) = 2
        /\ RegisteredIn(parent[n], services[n][1].token)
        /\ Len(getTokens(n)) = 2

\* No dispose() call was under way while resolve() call r was.
NoDisposeDuring(r) ==
    \A d \in DisposeCalls : ~Overlap(d, r) /\ ~Overlap(r, d)

\* resolve() call r returns or fails in this step.
Completes(r) == calls[r].pc # "done" /\ calls'[r].pc = "done"

\* C37: has and resolve agree.  When a resolve(t) called on a node that is
\* not disposed completes, no register() and no dispose() having run in
\* between, it has failed with NotRegistered exactly when has(t) is false on
\* the node, and with has(t) true it has failed neither with NotRegistered
\* nor with Disposed.
C37_Frame ==
    \A r \in ResolveCalls :
        (/\ Completes(r)
         /\ ~isDisposed[calls[r].node]
         /\ NoDisposeDuring(r))
        => /\ (calls'[r].err = "NotRegistered") <=> ~has(calls[r].node, calls[r].token)
           /\ has(calls[r].node, calls[r].token)
                => calls'[r].err \notin {"NotRegistered", "Disposed"}

C37_HasResolveAgree == [][C37_Frame]_vars

\* C37 on nodes that have no disposed ancestor: this the code does guarantee.
C37_WithoutWindow ==
    [][\A r \in ResolveCalls :
        (/\ Completes(r)
         /\ \A m \in Chain(calls[r].node) : ~isDisposed[m]
         /\ NoDisposeDuring(r))
        => /\ (calls'[r].err = "NotRegistered") <=> ~has(calls[r].node, calls[r].token)
           /\ has(calls[r].node, calls[r].token)
                => calls'[r].err \notin {"NotRegistered", "Disposed"}]_vars

\* The activations of dispose() call c below the last one: each awaits the
\* dispose() of the scope it has reached.
Awaiting(c, k) ==
    /\ calls[c].stack[k].pc = "scopes"
    /\ calls[c].stack[k].wait = Undefined
    /\ calls[c].stack[k].it \in 1..Len(scopes[calls[c].stack[k].node])
    /\ calls[c].stack[k + 1].node
            = scopes[calls[c].stack[k].node][calls[c].stack[k].it]

\* C38: within one dispose() the teardown is sequential.  In every state a
\* dispose() call awaits one thing: one scope per activation below the last
\* one, and at most one instance, in the last one.  The scopes are taken in
\* creation order, each after the earlier ones are disposed; the instances
\* are taken after the scopes, in the Map's order with no cached instance
\* skipped, each after the dispose operation of the one before has completed.
C38_Inv ==
    \A c \in DisposeCalls :
        /\ \A k \in 1..(Len(calls[c].stack) - 1) : Awaiting(c, k)
        /\ calls[c].pc = "run" =>
                /\ Top(c).wait # Undefined =>
                        /\ Top(c).pc = "svc"
                        /\ insts[Top(c).wait].started > insts[Top(c).wait].finished

C38_Frame ==
    \A c \in DisposeCalls :
        (calls[c].pc = "run" /\ calls'[c] # calls[c] /\ calls'[c].pc = "run") =>
            LET fr == Top(c)
                n == fr.node
                st == calls'[c].stack
            IN  /\ (fr.pc = "scopes" /\ Len(st) > Len(calls[c].stack)) =>
                        /\ st[Len(st)].node = scopes[n][st[Len(st) - 1].it]
                        /\ st[Len(st) - 1].it > fr.it
                        /\ \A i \in 1..(st[Len(st) - 1].it - 1) : isDisposed[scopes[n][i]]
                /\ (fr.pc = "scopes" /\ Len(st) = Len(calls[c].stack)
                        /\ st[Len(st)].pc # "scopes") =>
                        \A i \in 1..Len(scopes[n]) : isDisposed[scopes[n][i]]
                /\ (Len(st) = Len(calls[c].stack) /\ st[Len(st)].pc = "svc") =>
                        LET nf == st[Len(st)]
                        IN  /\ fr.pc \in {"scopes", "svc"}
                            /\ fr.pc = "svc" => nf.it > fr.it
                            /\ fr.wait # Undefined =>
                                    insts'[fr.wait].finished = insts[fr.wait].finished + 1
                            /\ nf.wait # Undefined =>
                                    /\ insts'[nf.wait].started = insts[nf.wait].started + 1
                                    /\ entries[services[n][nf.it].entry].instance = nf.wait
                            /\ \A k \in ((IF fr.pc = "svc" THEN fr.it ELSE 0) + 1)..(nf.it - 1) :
                                    ~Cached(services[n][k].entry)
                /\ (fr.pc = "svc" /\ Len(st) = Len(calls[c].stack)
                        /\ st[Len(st)].pc = "clear") =>
                        \A k \in (fr.it + 1)..Len(services[n]) :
                            ~Cached(services[n][k].entry)

LastOf(rs, t) ==
    LET is == {i \in 1..Len(rs) : rs[i].token = t}
    IN  IF is = {} THEN 0 ELSE CHOOSE i \in is : \A j \in is : j <= i

FirstOf(rs, t) ==
    LET is == {i \in 1..Len(rs) : rs[i].token = t}
    IN  IF is = {} THEN 0 ELSE CHOOSE i \in is : \A j \in is : i <= j

\* C39: build() makes one register() call per direct registration, in call
\* order, and then one per registration of the modules, in useModule order:
\* the new container holds every token of either kind, in the order of the
\* tokens' first calls; a token that a module registers has the factory and
\* lifetime of the last module registration for it, whether or not the
\* builder was given the token directly and whenever that was; any other
\* token has those of the last direct registration for it.
C39_Frame ==
    built' # built =>
        LET b == built'[Len(built')]
            mods == configured(modules, Len(modules))
            all == registrations \o mods
            sv == services'[b]
        IN  /\ Len(entries') = Len(entries) + Len(all)
            /\ \A k \in 1..Len(all) :
                    /\ entries'[Len(entries) + k].token = all[k].token
                    /\ entries'[Len(entries) + k].factory = all[k].factory
                    /\ entries'[Len(entries) + k].scope = all[k].scope
                    /\ entries'[Len(entries) + k].node = b
            /\ {sv[i].token : i \in 1..Len(sv)} = {all[k].token : k \in 1..Len(all)}
            /\ \A i, j \in 1..Len(sv) :
                    i < j => FirstOf(all, sv[i].token) < FirstOf(all, sv[j].token)
            /\ \A i \in 1..Len(sv) :
                    LET t == sv[i].token
                        e == entries'[sv[i].entry]
                    IN  IF LastOf(mods, t) # 0
                        THEN /\ sv[i].entry = Len(entries) + Len(registrations) + LastOf(mods, t)
                             /\ e.factory = mods[LastOf(mods, t)].factory
                             /\ e.scope = mods[LastOf(mods, t)].scope
                        ELSE /\ sv[i].entry = Len(entries) + LastOf(registrations, t)
                             /\ e.factory = registrations[LastOf(registrations, t)].factory
                             /\ e.scope = registrations[LastOf(registrations, t)].scope

C39_ModulesLast == [][C39_Frame]_vars

\* A container was built from a builder on which useModule was called before
\* a direct registration of the module's token with another lifetime, and
\* nothing was added to the builder since: the container holds the module's
\* factory and lifetime.
C39_Witness ==
    /\ Len(built) = 1
    /\ Cardinality({e \in 1..Len(entries) : entries[e].node = built[1]})
            = Len(registrations) + Len(modules)
    /\ \E i \in 1..Len(modules), j \in 1..Len(registrations) :
            /\ modules[i].at < j
            /\ modules[i].configure[1].token = registrations[j].token
            /\ modules[i].configure[1].scope # registrations[j].scope
            /\ LET e == entries[MapGet(services[built[1]], registrations[j].token)]
               IN  /\ e.factory = modules[i].configure[1].factory
                   /\ e.scope = modules[i].configure[1].scope
                   /\ e.factory # registrations[j].factory

====
